---- MODULE Spec2Model ----
(***************************************************************************)
(* Loan application intake and lifecycle of server-beforesalary:           *)
(*   src/routes/application.routes.js  (the request handlers)              *)
(*   src/unnamed/part_005              (Application schema, pre-save hook) *)
(*   src/unnamed/part_004              (Loan schema)                       *)
(*   src/unnamed/part_000              (GET /api/user/applications)        *)
(*   src/utils/sendEmail.js            (notification dispatcher)           *)
(*                                                                         *)
(* Every handler is cut at its store operations (findById, countDocuments, *)
(* insert, update): one action per store operation, so that two requests   *)
(* interleave exactly where the awaits of the code let them.  sendEmail    *)
(* touches no store state and is folded into the step that precedes it.    *)
(***************************************************************************)
EXTENDS Integers, Sequences, FiniteSets, TLC

(***************************************************************************)
(* Bounds of the model.                                                    *)
(***************************************************************************)
MaxIntake == 1      \* applications the store may hold, intake specification
MaxLife == 1        \* the same, lifecycle specification
MaxRace == 2        \* the same, concurrent specification
MaxView == 2        \* the same, view specification
MaxUpdate == 1      \* the same, update specification
MaxFiles == 3       \* files of an uploaded batch, form specification
MaxDecide == 2      \* applications the store may hold, decision specification
MaxAudit == 1       \* the same, audit specification
MaxConcur == 1      \* the same, concurrent decision specification
MaxSequence == 3    \* the same, numbering specification

Procs == {"p1", "p2"}      \* requests that may be in flight together

(***************************************************************************)
(* JavaScript values.  A value is a record [t, s, n]: t is the type tag,   *)
(* s the characters of a string, n the integer of a finite number or the   *)
(* sign of an infinity.                                                    *)
(***************************************************************************)
Undef == [t |-> "undefined", s |-> <<>>, n |-> 0]
Null == [t |-> "null", s |-> <<>>, n |-> 0]
NaN == [t |-> "nan", s |-> <<>>, n |-> 0]
Str(cs) == [t |-> "string", s |-> cs, n |-> 0]
Num(k) == [t |-> "number", s |-> <<>>, n |-> k]
Inf(sign) == [t |-> "infinity", s |-> <<>>, n |-> sign]

IsNumeric(v) == v.t \in {"number", "infinity", "nan"}     \* typeof v === 'number'

\* ToBoolean
Truthy(v) ==
  CASE v.t \in {"undefined", "null", "nan"} -> FALSE
    [] v.t = "string" -> v.s # <<>>
    [] v.t = "number" -> v.n # 0
    [] OTHER -> TRUE

\* a ?? b
Coalesce(a, b) == IF a.t \in {"undefined", "null"} THEN b ELSE a

WhiteSpace == {" ", "\t", "\n"}

RECURSIVE TrimStart(_)
TrimStart(cs) ==
  IF cs # <<>> /\ Head(cs) \in WhiteSpace THEN TrimStart(Tail(cs)) ELSE cs

RECURSIVE TrimEnd(_)
TrimEnd(cs) ==
  IF cs # <<>> /\ cs[Len(cs)] \in WhiteSpace
  THEN TrimEnd(SubSeq(cs, 1, Len(cs) - 1)) ELSE cs

\* String.prototype.trim
Trim(cs) == TrimEnd(TrimStart(cs))

DigitChars == <<"0", "1", "2", "3", "4", "5", "6", "7", "8", "9">>

IsDigit(c) == \E i \in 1..10 : DigitChars[i] = c
DigitVal(c) == (CHOOSE i \in 1..10 : DigitChars[i] = c) - 1

RECURSIVE DigitsValue(_, _)
DigitsValue(cs, acc) ==
  IF cs = <<>> THEN acc ELSE DigitsValue(Tail(cs), 10 * acc + DigitVal(Head(cs)))

AllDigits(cs) == cs # <<>> /\ \A i \in 1..Len(cs) : IsDigit(cs[i])

InfinityChars == <<"I", "n", "f", "i", "n", "i", "t", "y">>

\* StringToNumber of the language: white space is trimmed, the empty string
\* is 0, an optionally signed decimal integer is its value, "Infinity" is
\* infinite, any other text is NaN.
StringToNumber(cs) ==
  LET t == Trim(cs)
      signed == t # <<>> /\ Head(t) \in {"-", "+"}
      sign == IF t # <<>> /\ Head(t) = "-" THEN -1 ELSE 1
      body == IF signed THEN Tail(t) ELSE t
  IN  IF t = <<>> THEN Num(0)
      ELSE IF body = InfinityChars THEN Inf(sign)
      ELSE IF AllDigits(body) THEN Num(sign * DigitsValue(body, 0))
      ELSE NaN

\* Number(v)
ToNumber(v) ==
  CASE v.t = "undefined" -> NaN
    [] v.t = "null" -> Num(0)
    [] v.t = "string" -> StringToNumber(v.s)
    [] OTHER -> v

IsNaN(x) == x.t = "nan"
IsFinite(x) == x.t = "number"
\* x <= 0 on numbers: false for NaN
LeqZero(x) == (x.t = "number" /\ x.n <= 0) \/ (x.t = "infinity" /\ x.n < 0)


(***************************************************************************)
(* The texts of the model as character sequences.                          *)
(***************************************************************************)
Chars(str) ==
  CASE str = "" -> <<>>
    [] str = " " -> <<" ">>
    [] str = "  " -> <<" ", " ">>
    [] str = "abc" -> <<"a", "b", "c">>
    [] str = "100" -> <<"1", "0", "0">>
    [] str = "12" -> <<"1", "2">>
    [] str = "-5" -> <<"-", "5">>
    [] str = "0" -> <<"0">>
    [] str = "5" -> <<"5">>
    [] str = "{}" -> <<"{", "}">>
    [] str = "{oops" -> <<"{", "o", "o", "p", "s">>
    [] str = "Infinity" -> <<"I", "n", "f", "i", "n", "i", "t", "y">>
    [] str = "-Infinity" -> <<"-", "I", "n", "f", "i", "n", "i", "t", "y">>
    [] str = " Salaried " -> <<" ", "S", "a", "l", "a", "r", "i", "e", "d", " ">>
    [] str = "Asha" -> <<"A", "s", "h", "a">>
    [] str = "a@x.in" -> <<"a", "@", "x", ".", "i", "n">>
    [] str = "98" -> <<"9", "8">>
    [] str = "loanAmount" -> <<"l", "o", "a", "n", "A", "m", "o", "u", "n", "t">>
    [] str = "principal" -> <<"p", "r", "i", "n", "c", "i", "p", "a", "l">>
    [] str = "loanTenure" -> <<"l", "o", "a", "n", "T", "e", "n", "u", "r", "e">>
    [] str = "tenureMonths" -> <<"t", "e", "n", "u", "r", "e", "M", "o", "n", "t", "h", "s">>
    [] str = "employmentType" ->
         <<"e", "m", "p", "l", "o", "y", "m", "e", "n", "t", "T", "y", "p", "e">>
    [] str = "monthlyIncome" -> <<"m", "o", "n", "t", "h", "l", "y", "I", "n", "c", "o", "m", "e">>
    [] str = "fullName" -> <<"f", "u", "l", "l", "N", "a", "m", "e">>
    [] str = "email" -> <<"e", "m", "a", "i", "l">>
    [] str = "phone" -> <<"p", "h", "o", "n", "e">>
    [] str = "dynamicFiles_" -> <<"d", "y", "n", "a", "m", "i", "c", "F", "i", "l", "e", "s", "_">>
    [] str = "4294967294" -> <<"4", "2", "9", "4", "9", "6", "7", "2", "9", "4">>
    [] str = "idProof" -> <<"i", "d", "P", "r", "o", "o", "f">>
    [] str = "addressProof" -> <<"a", "d", "d", "r", "e", "s", "s", "P", "r", "o", "o", "f">>
    [] str = "incomeProof" -> <<"i", "n", "c", "o", "m", "e", "P", "r", "o", "o", "f">>
    [] str = "bankStatement" -> <<"b", "a", "n", "k", "S", "t", "a", "t", "e", "m", "e", "n", "t">>
    [] str = "otherDocuments" ->
         <<"o", "t", "h", "e", "r", "D", "o", "c", "u", "m", "e", "n", "t", "s">>
    [] str = "selfie" -> <<"s", "e", "l", "f", "i", "e">>
    [] str = "{\"loanAmount\":\"100\",\"loanTenure\":\"12\"}" ->
         <<"{", "\"", "l", "o", "a", "n", "A", "m", "o", "u", "n", "t", "\"", ":", "\"", "1",
           "0", "0", "\"", ",", "\"", "l", "o", "a", "n", "T", "e", "n", "u", "r", "e", "\"",
           ":", "\"", "1", "2", "\"", "}">>
    [] str = "{\"principal\":100000,\"tenureMonths\":12}" ->
         <<"{", "\"", "p", "r", "i", "n", "c", "i", "p", "a", "l", "\"", ":", "1", "0", "0",
           "0", "0", "0", ",", "\"", "t", "e", "n", "u", "r", "e", "M", "o", "n", "t", "h",
           "s", "\"", ":", "1", "2", "}">>
    [] str = "{\"loanAmount\":100,\"principal\":200,\"loanTenure\":12,\"tenureMonths\":1}" ->
         <<"{", "\"", "l", "o", "a", "n", "A", "m", "o", "u", "n", "t", "\"", ":", "1", "0",
           "0", ",", "\"", "p", "r", "i", "n", "c", "i", "p", "a", "l", "\"", ":", "2", "0",
           "0", ",", "\"", "l", "o", "a", "n", "T", "e", "n", "u", "r", "e", "\"", ":", "1",
           "2", ",", "\"", "t", "e", "n", "u", "r", "e", "M", "o", "n", "t", "h", "s", "\"",
           ":", "1", "}">>
    [] str = "{\"fullName\":\"Asha\",\"email\":\"a@x.in\",\"phone\":\"98\"}" ->
         <<"{", "\"", "f", "u", "l", "l", "N", "a", "m", "e", "\"", ":", "\"", "A", "s", "h",
           "a", "\"", ",", "\"", "e", "m", "a", "i", "l", "\"", ":", "\"", "a", "@", "x", ".",
           "i", "n", "\"", ",", "\"", "p", "h", "o", "n", "e", "\"", ":", "\"", "9", "8", "\"",
           "}">>
    [] str = "{\"employmentType\":\" Salaried \",\"monthlyIncome\":\"100\"}" ->
         <<"{", "\"", "e", "m", "p", "l", "o", "y", "m", "e", "n", "t", "T", "y", "p", "e",
           "\"", ":", "\"", " ", "S", "a", "l", "a", "r", "i", "e", "d", " ", "\"", ",", "\"",
           "m", "o", "n", "t", "h", "l", "y", "I", "n", "c", "o", "m", "e", "\"", ":", "\"",
           "1", "0", "0", "\"", "}">>
    [] str = "{\"city\":\"Pune\"}" ->
         <<"{", "\"", "c", "i", "t", "y", "\"", ":", "\"", "P", "u", "n", "e", "\"", "}">>
    [] str = "{\"pan\":\"abc\",\"gst\":\"5\"}" ->
         <<"{", "\"", "p", "a", "n", "\"", ":", "\"", "a", "b", "c", "\"", ",", "\"", "g", "s",
           "t", "\"", ":", "\"", "5", "\"", "}">>
    [] str = "pan" -> <<"p", "a", "n">>
    [] str = "gst" -> <<"g", "s", "t">>
    [] str = "dynamicFiles_pan" ->
         <<"d", "y", "n", "a", "m", "i", "c", "F", "i", "l", "e", "s", "_", "p", "a", "n">>
    [] str = "dynamicFiles_gst" ->
         <<"d", "y", "n", "a", "m", "i", "c", "F", "i", "l", "e", "s", "_", "g", "s", "t">>
    [] str = "dynamicFiles_2" ->
         <<"d", "y", "n", "a", "m", "i", "c", "F", "i", "l", "e", "s", "_", "2">>
    [] str = "dynamicFiles_10" ->
         <<"d", "y", "n", "a", "m", "i", "c", "F", "i", "l", "e", "s", "_", "1", "0">>
    [] str = "1" -> <<"1">>
    [] str = "100000" -> <<"1", "0", "0", "0", "0", "0">>
    [] str = "constructor" -> <<"c", "o", "n", "s", "t", "r", "u", "c", "t", "o", "r">>
    [] str = "toString" -> <<"t", "o", "S", "t", "r", "i", "n", "g">>
    [] str = "__proto__" -> <<"_", "_", "p", "r", "o", "t", "o", "_", "_">>
    [] str = "dynamicFiles_constructor" ->
         <<"d", "y", "n", "a", "m", "i", "c", "F", "i", "l", "e", "s", "_", "c", "o", "n", "s",
           "t", "r", "u", "c", "t", "o", "r">>
    [] str = "{\"loanAmount\":100,\"loanTenure\":12,\"interestRate\":1}" ->
         <<"{", "\"", "l", "o", "a", "n", "A", "m", "o", "u", "n", "t", "\"", ":", "1", "0",
           "0", ",", "\"", "l", "o", "a", "n", "T", "e", "n", "u", "r", "e", "\"", ":", "1",
           "2", ",", "\"", "i", "n", "t", "e", "r", "e", "s", "t", "R", "a", "t", "e", "\"",
           ":", "1", "}">>
    [] str = "resume" -> <<"r", "e", "s", "u", "m", "e">>

Text(str) == Str(Chars(str))


(***************************************************************************)
(* JSON.parse, on the texts the model submits: white space around a value  *)
(* is skipped; the values are null, an integer literal (no leading +), a   *)
(* string literal without escapes, and an object whose members are such    *)
(* scalars; every other text is a SyntaxError.  The result is              *)
(* [ok, v, members]: v is the plain value (t = "object" for an object) and *)
(* members the object's <key, value> pairs in the order of the text.       *)
(***************************************************************************)
EmptyObject == [t |-> "object", s |-> <<>>, n |-> 0]

NullChars == <<"n", "u", "l", "l">>

NoQuote(cs) == \A i \in 1..Len(cs) : cs[i] # "\""

\* the digits of an integer literal, its sign apart
JSONDigits(t) == IF t # <<>> /\ Head(t) = "-" THEN Tail(t) ELSE t
JSONSign(t) == IF t # <<>> /\ Head(t) = "-" THEN -1 ELSE 1

\* null, an integer or a string literal; t has no white space around it
JSONScalarTrimmed(t, digits) ==
  IF t = NullChars THEN [ok |-> TRUE, v |-> Null]
  ELSE IF AllDigits(digits) /\ (Len(digits) = 1 \/ Head(digits) # "0")
    THEN [ok |-> TRUE, v |-> Num(JSONSign(t) * DigitsValue(digits, 0))]
  ELSE IF Len(t) >= 2 /\ Head(t) = "\"" /\ t[Len(t)] = "\""
          /\ NoQuote(SubSeq(t, 2, Len(t) - 1))
    THEN [ok |-> TRUE, v |-> Str(SubSeq(t, 2, Len(t) - 1))]
  ELSE [ok |-> FALSE, v |-> Undef]

JSONScalarOf(t) == JSONScalarTrimmed(t, JSONDigits(t))

JSONScalar(cs) == JSONScalarOf(Trim(cs))

\* the positions of the character sep that lie outside every string literal
SepPositions(cs, sep) ==
  {i \in 1..Len(cs) :
     cs[i] = sep /\ Cardinality({j \in 1..(i - 1) : cs[j] = "\""}) % 2 = 0}

RECURSIVE Split(_, _)
Split(cs, sep) ==
  LET ps == SepPositions(cs, sep)
      p == CHOOSE x \in ps : \A y \in ps : x <= y
  IN  IF ps = {} THEN <<cs>>
      ELSE <<SubSeq(cs, 1, p - 1)>> \o Split(SubSeq(cs, p + 1, Len(cs)), sep)

\* "key" : scalar
JSONPair(key, val) ==
  [ok |-> key.ok /\ key.v.t = "string" /\ val.ok, key |-> key.v.s, val |-> val.v]

\* p is the position of the colon
JSONMemberAt(cs, p) ==
  JSONPair(JSONScalar(SubSeq(cs, 1, p - 1)), JSONScalar(SubSeq(cs, p + 1, Len(cs))))

JSONMemberIn(cs, ps) ==
  IF ps = {} THEN [ok |-> FALSE, key |-> <<>>, val |-> Undef]
  ELSE JSONMemberAt(cs, CHOOSE x \in ps : \A y \in ps : x <= y)

JSONMember(cs) == JSONMemberIn(cs, SepPositions(cs, ":"))

NotJSON == [ok |-> FALSE, v |-> Undef, members |-> <<>>]

\* the members of the text between the braces, NotJSON if one is malformed
JSONMembers(parts, ms) ==
  IF \A i \in 1..Len(parts) : ms[i].ok
  THEN [ok |-> TRUE, v |-> EmptyObject,
        members |-> [i \in 1..Len(parts) |-> <<ms[i].key, ms[i].val>>]]
  ELSE NotJSON

JSONObject(parts) == JSONMembers(parts, [i \in 1..Len(parts) |-> JSONMember(parts[i])])

JSONValue(scalar) == [ok |-> scalar.ok, v |-> scalar.v, members |-> <<>>]

\* t is the text without the white space around it
JSONParseTrimmed(t) ==
  IF Len(t) >= 2 /\ Head(t) = "{" /\ t[Len(t)] = "}"
  THEN IF \A i \in 2..(Len(t) - 1) : t[i] \in WhiteSpace
       THEN [ok |-> TRUE, v |-> EmptyObject, members |-> <<>>]
       ELSE JSONObject(Split(SubSeq(t, 2, Len(t) - 1), ","))
  ELSE JSONValue(JSONScalar(t))

JSONParse(cs) == JSONParseTrimmed(Trim(cs))

\* the value of the member named key (the last one wins), Undef if there is none
Member(r, key) ==
  LET is == {i \in 1..Len(r.members) : r.members[i][1] = key}
  IN  IF is = {} THEN Undef ELSE r.members[CHOOSE i \in is : \A j \in is : j <= i][2]

\* some member has a name outside keys
OtherMember(r, keys) == \E i \in 1..Len(r.members) : r.members[i][1] \notin keys

(***************************************************************************)
(* The request of POST /api/applications: the keys of req.body and, under  *)
(* files, req.files.  Each sub-object is a record [t, s, n, <its keys>]:   *)
(* t = "object" carries the keys (Undef = key absent), any other t is the  *)
(* scalar the client sent in its place; address is a plain value.          *)
(***************************************************************************)
LdObject(a, pr, te, tm, extra) ==
  [t |-> "object", s |-> <<>>, n |-> 0, loanAmount |-> a, principal |-> pr,
   loanTenure |-> te, tenureMonths |-> tm, purpose |-> extra]
LdScalar(v) ==
  [t |-> v.t, s |-> v.s, n |-> v.n, loanAmount |-> Undef, principal |-> Undef,
   loanTenure |-> Undef, tenureMonths |-> Undef, purpose |-> FALSE]

EiObject(et, mi) ==
  [t |-> "object", s |-> <<>>, n |-> 0, employmentType |-> et, monthlyIncome |-> mi]
EiScalar(v) ==
  [t |-> v.t, s |-> v.s, n |-> v.n, employmentType |-> Undef, monthlyIncome |-> Undef]

PiObject(fn, em, ph) ==
  [t |-> "object", s |-> <<>>, n |-> 0, fullName |-> fn, email |-> em, phone |-> ph]
PiScalar(v) ==
  [t |-> v.t, s |-> v.s, n |-> v.n, fullName |-> Undef, email |-> Undef, phone |-> Undef]

\* a value of dynamicFields under one name: a scalar, or (t = "array") the
\* list of {name, url} pairs of the files uploaded under that name
DfValue(v) == [t |-> v.t, s |-> v.s, n |-> v.n, list |-> <<>>]
DfFiles(list) == [t |-> "array", s |-> <<>>, n |-> 0, list |-> list]

\* dynamicFields: an object is the function map from its names to values
DfObject(map) == [t |-> "object", s |-> <<>>, n |-> 0, map |-> map]
DfScalar(v) == [t |-> v.t, s |-> v.s, n |-> v.n, map |-> <<>>]

\* the plain value [t, s, n] of a sub-object
Plain(x) == [t |-> x.t, s |-> x.s, n |-> x.n]

\* the sub-objects as JSON.parse returns them
LdKeys == {Chars("loanAmount"), Chars("principal"), Chars("loanTenure"), Chars("tenureMonths")}
LdParsed(r) ==
  IF r.v.t = "object"
  THEN LdObject(Member(r, Chars("loanAmount")), Member(r, Chars("principal")),
                Member(r, Chars("loanTenure")), Member(r, Chars("tenureMonths")),
                OtherMember(r, LdKeys))
  ELSE LdScalar(r.v)

EiParsed(r) ==
  IF r.v.t = "object"
  THEN EiObject(Member(r, Chars("employmentType")), Member(r, Chars("monthlyIncome")))
  ELSE EiScalar(r.v)

PiParsed(r) ==
  IF r.v.t = "object"
  THEN PiObject(Member(r, Chars("fullName")), Member(r, Chars("email")),
                Member(r, Chars("phone")))
  ELSE PiScalar(r.v)

DfParsed(r) ==
  IF r.v.t = "object"
  THEN DfObject([k \in {r.members[i][1] : i \in 1..Len(r.members)} |-> DfValue(Member(r, k))])
  ELSE DfScalar(r.v)

\* application.routes.js:42-46, one key: text is parsed; ok is false when
\* the value is not text or the text does not parse
ParseField(x) == IF x.t = "string" THEN JSONParse(x.s) ELSE NotJSON

\* the keys the normalizer visits (line 41)
NormalizedKeys == {"personalInfo", "address", "employmentInfo", "loanDetails", "dynamicFields"}

\* a key whose text parses is replaced by the parsed value, any other stays;
\* r[key] is what parsing the key gave
Normalized(body, r) ==
  [body EXCEPT
     !.personalInfo = IF r.personalInfo.ok THEN PiParsed(r.personalInfo) ELSE @,
     !.address = IF r.address.ok THEN r.address.v ELSE @,
     !.employmentInfo = IF r.employmentInfo.ok THEN EiParsed(r.employmentInfo) ELSE @,
     !.loanDetails = IF r.loanDetails.ok THEN LdParsed(r.loanDetails) ELSE @,
     !.dynamicFields = IF r.dynamicFields.ok THEN DfParsed(r.dynamicFields) ELSE @]

\* Normalize leaving loanDetails and dynamicFields as they arrived
NormalizeThreeKeys(body) ==
  Normalized(body, [key \in NormalizedKeys |->
                      IF key \in {"loanDetails", "dynamicFields"} THEN NotJSON
                      ELSE ParseField(body[key])])

Normalize(body) == Normalized(body, [key \in NormalizedKeys |-> ParseField(body[key])])

\* Object.keys(ld).length === 0
LdNoKeys(ld) ==
  /\ ld.loanAmount = Undef /\ ld.principal = Undef
  /\ ld.loanTenure = Undef /\ ld.tenureMonths = Undef /\ ~ld.purpose

(***************************************************************************)
(* Loan products (src/unnamed/part_004).  Loan ids are strings; ObjectIds  *)
(* is the set of well-formed ids, LoanIds the ids of the stored products.  *)
(***************************************************************************)
ObjectIds == {"L1", "L2", "L3", "L4", "L5", "L9"}
LoanIds == {"L1", "L2", "L3", "L4", "L5"}
Loans ==
  [l \in LoanIds |->
     CASE l = "L1" -> [type |-> "personal", isActive |-> TRUE,
                       rateDefault |-> Num(12), rateMin |-> Num(10)]
       [] l = "L2" -> [type |-> "business", isActive |-> FALSE,
                       rateDefault |-> Num(0), rateMin |-> Num(10)]
       [] l = "L3" -> [type |-> "gold", isActive |-> TRUE,
                       rateDefault |-> Num(0), rateMin |-> Num(0)]
       [] l = "L4" -> [type |-> "home", isActive |-> TRUE,
                       rateDefault |-> Undef, rateMin |-> Num(10)]
       [] l = "L5" -> [type |-> "vehicle", isActive |-> TRUE,
                       rateDefault |-> Null, rateMin |-> Undef]]

\* mongoose.Types.ObjectId.isValid
ObjectIdIsValid(id) == id \in ObjectIds

(***************************************************************************)
(* Users (the authentication collaborator supplies req.user).              *)
(***************************************************************************)
Users == {"u1", "u2", "a1"}
Role(u) == IF u = "a1" THEN "admin" ELSE "user"
Email(u) == u


(***************************************************************************)
(* Responses.  code 0 is "no response yet: the handler goes on".           *)
(***************************************************************************)
MsgLoanId == "Valid loanId required"
MsgLoanNotFound == "Loan not found"
MsgLoanDetails == "Loan details are required. Please provide loan amount and tenure."
MsgAmountRequired == "Loan amount is required. Please enter a valid loan amount."
MsgTenureRequired == "Loan tenure is required. Please enter a valid loan tenure in months."
MsgAmountNumber == "Loan amount must be a valid number."
MsgTenureNumber == "Loan tenure must be a valid number."
MsgAmountPositive == "Loan amount must be greater than 0."
MsgTenurePositive == "Loan tenure must be greater than 0 months."
MsgEmploymentType == "Employment type is required. Please select your employment type."
MsgMonthlyIncome == "Monthly income is required and must be a valid positive number."
MsgTrimTypeError == "employmentInfo.employmentType.trim is not a function"
MsgCreateProperty == "Cannot create property"
MsgPushNotFunction == "push is not a function"
MsgValidationFailed == "Validation failed"
MsgDuplicateKey == "E11000 duplicate key error"
MsgSubmitted == "Application submitted successfully"
MsgAppNotFound == "Application not found"
MsgNotAuthorizedView == "Not authorized to view this application"
MsgNotAuthorizedUpdate == "Not authorized to update this application"
MsgNotAuthorized == "Not authorized"
MsgApproved == "Application approved successfully"
MsgRejected == "Application rejected"

Reply(code, msg) == [code |-> code, msg |-> msg]
Continue == Reply(0, "")

(***************************************************************************)
(* The instalment (application.routes.js:136-143).  The quotient           *)
(*   P * r * (1 + r)^n / ((1 + r)^n - 1),  r = R / 100 / 12,               *)
(* is computed exactly, as  P * R * A^n / (1200 * (A^n - 1200^n)) with     *)
(* A = 1200 + R, on naturals of any size: a natural is the sequence of its *)
(* base-10000 digits, least significant first, <<>> being 0.               *)
(***************************************************************************)
Base == 10000

RECURSIVE BigMulSmall(_, _, _)
\* a * k + carry, for 0 <= k < Base
BigMulSmall(a, k, carry) ==
  IF a = <<>>
  THEN IF carry = 0 THEN <<>> ELSE <<carry % Base>> \o BigMulSmall(<<>>, k, carry \div Base)
  ELSE <<(Head(a) * k + carry) % Base>>
         \o BigMulSmall(Tail(a), k, (Head(a) * k + carry) \div Base)

RECURSIVE BigAdd(_, _, _)
BigAdd(a, b, carry) ==
  LET x == (IF a = <<>> THEN 0 ELSE Head(a)) + (IF b = <<>> THEN 0 ELSE Head(b)) + carry
  IN  IF a = <<>> /\ b = <<>>
      THEN IF carry = 0 THEN <<>> ELSE <<carry>>
      ELSE <<x % Base>> \o BigAdd(IF a = <<>> THEN <<>> ELSE Tail(a),
                                  IF b = <<>> THEN <<>> ELSE Tail(b), x \div Base)

RECURSIVE StripZeros(_)
StripZeros(a) ==
  IF a # <<>> /\ a[Len(a)] = 0 THEN StripZeros(SubSeq(a, 1, Len(a) - 1)) ELSE a

RECURSIVE BigSubDigits(_, _, _)
BigSubDigits(a, b, borrow) ==
  LET x == Head(a) - (IF b = <<>> THEN 0 ELSE Head(b)) - borrow
  IN  IF a = <<>> THEN <<>>
      ELSE <<(x + Base) % Base>>
             \o BigSubDigits(Tail(a), IF b = <<>> THEN <<>> ELSE Tail(b),
                             IF x < 0 THEN 1 ELSE 0)

\* a - b, for a >= b
BigSub(a, b) == StripZeros(BigSubDigits(a, b, 0))

RECURSIVE BigMulInt(_, _)
\* a * k, for any natural k
BigMulInt(a, k) ==
  IF k = 0 \/ a = <<>> THEN <<>>
  ELSE IF k < Base THEN BigMulSmall(a, k, 0)
  ELSE BigAdd(BigMulSmall(a, k % Base, 0), <<0>> \o BigMulInt(a, k \div Base), 0)

RECURSIVE BigPow(_, _)
BigPow(k, n) == IF n = 0 THEN <<1>> ELSE BigMulInt(BigPow(k, n - 1), k)

RECURSIVE BigLeqFrom(_, _, _)
\* a <= b on the digits i and below, a and b of the same length
BigLeqFrom(a, b, i) ==
  IF i = 0 THEN TRUE
  ELSE IF a[i] # b[i] THEN a[i] < b[i]
  ELSE BigLeqFrom(a, b, i - 1)

BigLeq(a, b) ==
  IF Len(a) # Len(b) THEN Len(a) < Len(b) ELSE BigLeqFrom(a, b, Len(a))

RECURSIVE RoundDiv(_, _, _, _)
\* Math.round(N / D) = floor(N / D + 1/2): the greatest e of lo..hi with
\* 2 * D * e <= 2 * N + D
RoundDiv(N, D, lo, hi) ==
  LET mid == (lo + hi + 1) \div 2
  IN  IF lo = hi THEN lo
      ELSE IF BigLeq(BigMulInt(BigMulInt(D, 2), mid), BigAdd(BigMulInt(N, 2), D, 0))
        THEN RoundDiv(N, D, mid, hi)
      ELSE RoundDiv(N, D, lo, mid - 1)

MonthsPerYear == 12
Percent == 100

\* e or e - 1 for e = Math.round(N / D): Math.round takes a half towards
\* +Infinity, so -Math.round(-N / D) is e - 1 when N / D ends in exactly .5
HalfDown(N, D, e) ==
  IF BigMulInt(BigMulInt(D, 2), e) = BigAdd(BigMulInt(N, 2), D, 0) THEN e - 1 ELSE e

\* lines 139-142 for the amount -P < 0: Math.round of the negative quotient
EmiNegative(P, R, n) ==
  LET unit == Percent * MonthsPerYear
      pw == BigPow(unit + R, n)
      N == BigMulInt(BigMulInt(pw, R), P)
      D == BigMulInt(BigSub(pw, BigPow(unit, n)), unit)
  IN  0 - HalfDown(N, D, RoundDiv(N, D, 0, P + (P * R) \div unit + 1))

\* Emi with Math.floor in place of Math.round
EmiFloor(P, R, n) ==
  LET unit == Percent * MonthsPerYear
      pw == BigPow(unit + R, n)
      N == BigMulInt(BigMulInt(pw, R), P)
      D == BigMulInt(BigSub(pw, BigPow(unit, n)), unit)
      N2 == BigMulInt(N, 2)
  IN  IF R > 0 /\ P > 0 /\ BigLeq(D, N2)
      THEN RoundDiv(BigSub(N2, D), BigMulInt(D, 2), 0, P + (P * R) \div unit + 1)
      ELSE 0

\* lines 137-143 for the amount P, the annual rate R and the tenure n; the
\* quotient is at most P * (1 + r)
Emi(P, R, n) ==
  LET unit == Percent * MonthsPerYear
      pw == BigPow(unit + R, n)
      N == BigMulInt(BigMulInt(pw, R), P)
      D == BigMulInt(BigSub(pw, BigPow(unit, n)), unit)
  IN  IF R > 0 /\ P > 0 THEN RoundDiv(N, D, 0, P + (P * R) \div unit + 1)
      ELSE IF R > 0 /\ P < 0 THEN EmiNegative(0 - P, R, n)
      ELSE 0

\* the instalments of the terms the specifications submit, computed once
EmiKnown ==
  [x \in {100, 200, 100000} \X {12} \X {1, 12} |-> Emi(x[1], x[2], x[3])]

\* the arguments are evaluated once, as the route evaluates them (lines 136-143)
EmiOf(P, R, n) ==
  CHOOSE e \in {IF x \in DOMAIN EmiKnown THEN EmiKnown[x] ELSE Emi(x[1], x[2], x[3]) :
                  x \in {<<P, R, n>>}} : TRUE

(***************************************************************************)
(* The uploaded files (application.routes.js:17-37 and 145-195).  A file   *)
(* is [fieldname, originalname, filename], fieldname a character sequence. *)
(***************************************************************************)
StartsWith(cs, prefix) == Len(cs) >= Len(prefix) /\ SubSeq(cs, 1, Len(prefix)) = prefix

DynamicPrefix == Chars("dynamicFiles_")

IsDynamic(file) == StartsWith(file.fieldname, DynamicPrefix)

\* file.fieldname.replace('dynamicFiles_', ''), the fieldname starting with it
DynamicName(file) == SubSeq(file.fieldname, Len(DynamicPrefix) + 1, Len(file.fieldname))

\* files[field]
StaticGroup(files, field) ==
  SelectSeq(files, LAMBDA f : ~IsDynamic(f) /\ f.fieldname = Chars(field))

\* dynamicFiles[name]
DynamicGroup(files, name) ==
  SelectSeq(files, LAMBDA f : IsDynamic(f) /\ DynamicName(f) = name)

\* names that a fresh object {} inherits: reading them gives a function or an
\* object, which is truthy and has no push
ObjectPrototypeNames == {Chars("constructor"), Chars("toString"), Chars("__proto__")}

\* the property of files or dynamicFiles under which lines 22-35 group a file
GroupName(file) == IF IsDynamic(file) THEN DynamicName(file) ELSE file.fieldname

\* lines 25-28 and 32-35: the array is created only if the property reads
\* falsy, then push is called on what the property reads: TypeError
GroupThrows(files) == \E i \in 1..Len(files) : GroupName(files[i]) \in ObjectPrototypeNames

RECURSIVE InsertionOrder(_, _)
\* the names of dynamicFiles in the order in which the loop created them
InsertionOrder(files, seen) ==
  IF files = <<>> THEN <<>>
  ELSE IF IsDynamic(Head(files)) /\ DynamicName(Head(files)) \notin seen
    THEN <<DynamicName(Head(files))>>
           \o InsertionOrder(Tail(files), seen \cup {DynamicName(Head(files))})
  ELSE InsertionOrder(Tail(files), seen)

MaxIndexChars == Chars("4294967294")

RECURSIVE DigitsLeq(_, _)
\* a <= b for digit sequences of the same length
DigitsLeq(a, b) ==
  IF a = <<>> THEN TRUE
  ELSE IF Head(a) # Head(b) THEN DigitVal(Head(a)) < DigitVal(Head(b))
  ELSE DigitsLeq(Tail(a), Tail(b))

\* a property name that is an array index: the canonical decimal text of an
\* integer of 0 .. 2^32 - 2
IsArrayIndex(cs) ==
  /\ AllDigits(cs) /\ (Len(cs) = 1 \/ Head(cs) # "0")
  /\ \/ Len(cs) < Len(MaxIndexChars)
     \/ Len(cs) = Len(MaxIndexChars) /\ DigitsLeq(cs, MaxIndexChars)

\* a < b for array indices
IndexLess(a, b) == Len(a) < Len(b) \/ (Len(a) = Len(b) /\ a # b /\ DigitsLeq(a, b))

RECURSIVE SortIndices(_)
\* the array indices among names, ascending
SortIndices(S) ==
  IF S = {} THEN <<>>
  ELSE LET m == CHOOSE x \in S : \A y \in S \ {x} : IndexLess(x, y)
       IN  <<m>> \o SortIndices(S \ {m})

\* Object.keys of an object whose properties were created in the order
\* names: the array indices in ascending order, then the other names in the
\* order of creation
ObjectKeys(names) ==
  SortIndices({names[i] : i \in {j \in 1..Len(names) : IsArrayIndex(names[j])}})
    \o SelectSeq(names, LAMBDA k : ~IsArrayIndex(k))

RECURSIVE FromChars(_)
\* the text of a character sequence
FromChars(cs) == IF cs = <<>> THEN "" ELSE Head(cs) \o FromChars(Tail(cs))

Document(type, file) ==
  [type |-> type, name |-> file.originalname, url |-> "/uploads/" \o file.filename,
   status |-> "Pending"]

\* pushGroup(arr, type)
PushGroup(group, type) == [i \in 1..Len(group) |-> Document(type, group[i])]

\* PushSelfie pushing every selfie file
PushSelfieAll(files) == PushGroup(StaticGroup(files, "selfie"), "Selfie")

\* lines 162-171: the first selfie file only
PushSelfie(files) ==
  LET selfie == StaticGroup(files, "selfie")
  IN  IF Len(selfie) > 0 THEN <<Document("Selfie", selfie[1])>> ELSE <<>>

\* lines 147-171
StaticDocuments(files) ==
  PushGroup(StaticGroup(files, "idProof"), "ID")
    \o PushGroup(StaticGroup(files, "addressProof"), "Address")
    \o PushGroup(StaticGroup(files, "incomeProof"), "Income")
    \o PushGroup(StaticGroup(files, "bankStatement"), "Bank Statement")
    \o PushGroup(StaticGroup(files, "otherDocuments"), "Other")
    \o PushSelfie(files)

RECURSIVE DynamicDocuments(_, _)
\* lines 177-186 over the names keys
DynamicDocuments(files, keys) ==
  IF keys = <<>> THEN <<>>
  ELSE PushGroup(DynamicGroup(files, Head(keys)), "Dynamic: " \o FromChars(Head(keys)))
         \o DynamicDocuments(files, Tail(keys))

DynamicKeys(files) == ObjectKeys(InsertionOrder(files, {}))

\* applicationData.dynamicFields || {}
OrEmptyDf(x) == IF x.t = "object" \/ Truthy(Plain(x)) THEN x ELSE DfObject(<<>>)

\* fieldFiles.map(f => ({name, url}))
FileList(group) ==
  [i \in 1..Len(group) |->
     [name |-> group[i].originalname, url |-> "/uploads/" \o group[i].filename]]

\* lines 188-194 for every name: dynamicFields[name] = the list of its files
AssignFiles(df, files, names) ==
  DfObject([k \in DOMAIN df.map \cup names |->
              IF k \in names THEN DfFiles(FileList(DynamicGroup(files, k)))
              ELSE df.map[k]])

\* lines 174-195: a property cannot be created on a value that is not an
\* object (the module is in strict mode): TypeError
ClassifyThrows(n) ==
  OrEmptyDf(n.dynamicFields).t # "object" /\ DynamicKeys(n.files) # <<>>

Documents(n) == StaticDocuments(n.files) \o DynamicDocuments(n.files, DynamicKeys(n.files))

DynamicFields(n) ==
  LET df == OrEmptyDf(n.dynamicFields)
      keys == DynamicKeys(n.files)
  IN  IF df.t = "object" THEN AssignFiles(df, n.files, {keys[i] : i \in 1..Len(keys)})
      ELSE df

(***************************************************************************)
(* POST /api/applications, up to Application.create                        *)
(* (application.routes.js:39-226).  b is the request bag.                  *)
(***************************************************************************)
\* applicationData.loanId || applicationData.loanProductId
RequestLoanId(b) == IF b.loanId # "" THEN b.loanId ELSE b.loanProductId

\* applicationData.<key> || {}
OrEmptyLd(x) ==
  IF x.t = "object" \/ Truthy(Plain(x)) THEN x
  ELSE LdObject(Undef, Undef, Undef, Undef, FALSE)
OrEmptyEi(x) ==
  IF x.t = "object" \/ Truthy(Plain(x)) THEN x ELSE EiObject(Undef, Undef)

\* LoanAmountRaw with the alias ahead of the canonical name
LoanAmountRawAliasFirst(ld) == Coalesce(ld.principal, ld.loanAmount)
LoanAmountRaw(ld) == Coalesce(ld.loanAmount, ld.principal)
LoanTenureRaw(ld) == Coalesce(ld.loanTenure, ld.tenureMonths)

\* raw === undefined || raw === null || raw === ''
RawMissing(raw) == raw.t \in {"undefined", "null"} \/ raw = Str(<<>>)

\* LoanChecks with each field's three tests kept together: the amount's number
\* and sign tests ahead of the tenure's presence test
LoanChecksByField(b) ==
  LET loanId == RequestLoanId(b)
      ld == OrEmptyLd(b.loanDetails)
      loanAmountRaw == LoanAmountRaw(ld)
      loanTenureRaw == LoanTenureRaw(ld)
      loanAmount == ToNumber(loanAmountRaw)
      loanTenure == ToNumber(loanTenureRaw)
  IN  IF loanId = "" \/ ~ObjectIdIsValid(loanId) THEN Reply(400, MsgLoanId)
      ELSE IF loanId \notin LoanIds THEN Reply(404, MsgLoanNotFound)
      ELSE IF ld.t # "object" \/ LdNoKeys(ld) THEN Reply(400, MsgLoanDetails)
      ELSE IF RawMissing(loanAmountRaw) THEN Reply(400, MsgAmountRequired)
      ELSE IF IsNaN(loanAmount) \/ ~IsFinite(loanAmount) THEN Reply(400, MsgAmountNumber)
      ELSE IF LeqZero(loanAmount) THEN Reply(400, MsgAmountPositive)
      ELSE IF RawMissing(loanTenureRaw) THEN Reply(400, MsgTenureRequired)
      ELSE IF IsNaN(loanTenure) \/ ~IsFinite(loanTenure) THEN Reply(400, MsgTenureNumber)
      ELSE IF LeqZero(loanTenure) THEN Reply(400, MsgTenurePositive)
      ELSE Continue

\* the chain of early returns of lines 54-134
LoanChecks(b) ==
  LET loanId == RequestLoanId(b)
      ld == OrEmptyLd(b.loanDetails)
      loanAmountRaw == LoanAmountRaw(ld)
      loanTenureRaw == LoanTenureRaw(ld)
      loanAmount == ToNumber(loanAmountRaw)
      loanTenure == ToNumber(loanTenureRaw)
  IN  IF loanId = "" \/ ~ObjectIdIsValid(loanId) THEN Reply(400, MsgLoanId)
      ELSE IF loanId \notin LoanIds THEN Reply(404, MsgLoanNotFound)
      ELSE IF ld.t # "object" \/ LdNoKeys(ld) THEN Reply(400, MsgLoanDetails)
      ELSE IF RawMissing(loanAmountRaw) THEN Reply(400, MsgAmountRequired)
      ELSE IF RawMissing(loanTenureRaw) THEN Reply(400, MsgTenureRequired)
      ELSE IF IsNaN(loanAmount) \/ ~IsFinite(loanAmount) THEN Reply(400, MsgAmountNumber)
      ELSE IF IsNaN(loanTenure) \/ ~IsFinite(loanTenure) THEN Reply(400, MsgTenureNumber)
      ELSE IF LeqZero(loanAmount) THEN Reply(400, MsgAmountPositive)
      ELSE IF LeqZero(loanTenure) THEN Reply(400, MsgTenurePositive)
      ELSE Continue

\* EmploymentChecks without the test of the trimmed text
EmploymentChecksUntrimmed(b) ==
  LET employmentInfo == OrEmptyEi(b.employmentInfo)
      et == employmentInfo.employmentType
      monthlyIncome == ToNumber(employmentInfo.monthlyIncome)
  IN  IF ~Truthy(et) THEN Reply(400, MsgEmploymentType)
      ELSE IF et.t # "string" THEN Reply(500, MsgTrimTypeError)
      ELSE IF ~Truthy(monthlyIncome) \/ IsNaN(monthlyIncome) \/ LeqZero(monthlyIncome)
        THEN Reply(400, MsgMonthlyIncome)
      ELSE Continue

\* lines 198-215; a truthy employmentType that is not text has no trim method
EmploymentChecks(b) ==
  LET employmentInfo == OrEmptyEi(b.employmentInfo)
      et == employmentInfo.employmentType
      monthlyIncome == ToNumber(employmentInfo.monthlyIncome)
  IN  IF ~Truthy(et) THEN Reply(400, MsgEmploymentType)
      ELSE IF et.t # "string" THEN Reply(500, MsgTrimTypeError)
      ELSE IF Trim(et.s) = <<>> THEN Reply(400, MsgEmploymentType)
      ELSE IF ~Truthy(monthlyIncome) \/ IsNaN(monthlyIncome) \/ LeqZero(monthlyIncome)
        THEN Reply(400, MsgMonthlyIncome)
      ELSE Continue

\* the validation of Application.create, which precedes the pre-save hook:
\* the required paths of personalInfo (part_005:38-41); address, a nested
\* path, and dynamicFields, a Map (part_005:109-113), are objects or are
\* not given
RequiredString(v) == v.t = "string" /\ v.s # <<>>
SchemaChecks(b) ==
  LET pi == b.personalInfo
  IN  IF /\ pi.t = "object" /\ RequiredString(pi.fullName)
         /\ RequiredString(pi.email) /\ RequiredString(pi.phone)
         /\ b.address.t = "object" \/ ~Truthy(b.address)
         /\ OrEmptyDf(b.dynamicFields).t = "object"
      THEN Continue
      ELSE Reply(400, MsgValidationFailed)

\* the first reply the handler writes for the normalized bag n, r1 and r2
\* the replies of lines 54-134 and of lines 198-215; the files are grouped
\* (lines 20-37) ahead of everything else
FirstReply(n, r1, r2) ==
  IF GroupThrows(n.files) THEN Reply(500, MsgPushNotFunction)
  ELSE IF r1.code # 0 THEN r1
  ELSE IF ClassifyThrows(n) THEN Reply(500, MsgCreateProperty)
  ELSE IF r2.code # 0 THEN r2
  ELSE SchemaChecks(n)

NormalizedChecks(n) == FirstReply(n, LoanChecks(n), EmploymentChecks(n))

\* the first reply the handler writes for the bag b, Continue if none
SubmitChecks(b) == NormalizedChecks(Normalize(b))

\* Returns with the `return` of lines 122-125 missing
ReturnsButAmountSign(r) == r.code # 0 /\ r.msg # MsgAmountPositive

\* every reply is written by `return res.status(...).json(...)`, or by the
\* catch block: the handler ends where it replies
Returns(r) == r.code # 0

\* AnnualRate with || in place of ??
AnnualRateOr(loan) ==
  IF Truthy(loan.rateDefault) THEN loan.rateDefault
  ELSE IF Truthy(loan.rateMin) THEN loan.rateMin ELSE Num(0)

\* loan.interestRate?.default ?? loan.interestRate?.min ?? 0
AnnualRate(loan) == Coalesce(loan.rateDefault, Coalesce(loan.rateMin, Num(0)))

(***************************************************************************)
(* The Application collection (part_005).  applicationNumber "" stands for *)
(* a number that is not set; approvedAt / rejectedAt are "" or "date".     *)
(***************************************************************************)
Statuses == {"Draft", "Submitted", "Under Review", "Documents Pending", "Approved", "Rejected"}

\* the document Application.create is given (lines 229-245): loan is the
\* product found at line 58, the numbers are those of lines 101-102 and 136
ApplicationData(user, n, loanId, loan, loanAmount, loanTenure, annualRate, ei) ==
  [userId |-> user, loanId |-> loanId, loanType |-> loan.type,
   status |-> "Submitted", applicationNumber |-> "",
   loanAmount |-> loanAmount, loanTenure |-> loanTenure,
   interestRate |-> annualRate,
   emi |-> EmiOf(loanAmount, annualRate.n, loanTenure),
   documents |-> Documents(n), dynamicFields |-> DynamicFields(n),
   employmentType |-> Trim(ei.employmentType.s),
   monthlyIncome |-> ToNumber(ei.monthlyIncome),
   approvedAt |-> "", approvedBy |-> "", rejectedAt |-> "", rejectionReason |-> ""]

\* ld and ei are applicationData.loanDetails || {} and the employmentInfo
ApplicationOf(user, n, loanId, ld, ei) ==
  ApplicationData(user, n, loanId, Loans[loanId], ToNumber(LoanAmountRaw(ld)).n,
                  ToNumber(LoanTenureRaw(ld)).n, AnnualRate(Loans[loanId]), ei)

NormalizedApplication(user, n) ==
  ApplicationOf(user, n, RequestLoanId(n), OrEmptyLd(n.loanDetails),
                OrEmptyEi(n.employmentInfo))

NewApplication(user, b) == NormalizedApplication(user, Normalize(b))

RECURSIVE ToDecimal(_)
\* String(n)
ToDecimal(n) ==
  IF n < 10 THEN DigitChars[n + 1]
  ELSE ToDecimal(n \div 10) \o DigitChars[(n % 10) + 1]

RECURSIVE PadStart(_, _, _)
\* String.prototype.padStart
PadStart(str, len, fill) ==
  IF Len(str) >= len THEN str ELSE PadStart(fill \o str, len, fill)

PadWidth == 6

\* FormatNumber without the + 1
FormatNumberOfCount(count) == "APP" \o PadStart(ToDecimal(count), PadWidth, "0")

FormatNumber(count) == "APP" \o PadStart(ToDecimal(count + 1), PadWidth, "0")

\* PreSave with the status test inverted
PreSaveDraftOnly(doc, count) ==
  IF doc.applicationNumber = "" /\ doc.status = "Draft"
  THEN [doc EXCEPT !.applicationNumber = FormatNumber(count)]
  ELSE doc

\* applicationSchema.pre('save') (part_005:119-125), count being the result
\* of countDocuments
PreSave(doc, count) ==
  IF doc.applicationNumber = "" /\ doc.status # "Draft"
  THEN [doc EXCEPT !.applicationNumber = FormatNumber(count)]
  ELSE doc

\* UniqueOk without the index
UniqueOff(store, i, number) == TRUE

\* the unique index on applicationNumber (part_005:105-108): a write that
\* would leave document i with a number another document holds is refused
UniqueOk(store, i, number) ==
  \A j \in 1..Len(store) : j # i => store[j].applicationNumber # number


(***************************************************************************)
(* State.                                                                  *)
(*   apps  the Application collection, in insertion order; the index of a  *)
(*         document is its _id                                             *)
(*   pend  for each request slot, the request between two store operations *)
(*   last  the latest exchange: the request, the response written for it   *)
(*         and the message the same request handed to sendEmail             *)
(***************************************************************************)
VARIABLES apps, pend, last

vars == <<apps, pend, last>>

NoDoc ==
  [userId |-> "", loanId |-> "", loanType |-> "", status |-> "", applicationNumber |-> "",
   loanAmount |-> 0, loanTenure |-> 0, interestRate |-> Undef, emi |-> 0,
   documents |-> <<>>, dynamicFields |-> DfObject(<<>>),
   employmentType |-> <<>>, monthlyIncome |-> Undef,
   approvedAt |-> "", approvedBy |-> "", rejectedAt |-> "", rejectionReason |-> ""]

\* a key the PUT body does not carry
Absent == "<absent>"
NoUpdate == [status |-> Absent, applicationNumber |-> Absent, loanAmount |-> Undef]

\* the bag of a request that is not a submission
NoBody ==
  [loanId |-> "", loanProductId |-> "", loanDetails |-> LdScalar(Undef),
   employmentInfo |-> EiScalar(Undef), personalInfo |-> PiScalar(Undef),
   address |-> Undef, dynamicFields |-> DfScalar(Undef), files |-> <<>>]

Idle ==
  [op |-> "idle", phase |-> "", user |-> "", id |-> 0, snap |-> NoDoc,
   number |-> "", upd |-> NoUpdate, reason |-> Absent, body |-> NoBody]

\* success is what sendEmail returns: it catches every failure of the
\* transport and reports it as {success: false} (sendEmail.js:71-107)
NoMail == [called |-> FALSE, to |-> Undef, subject |-> "", success |-> FALSE]
\* sendEmail({to, subject, html, text}) (sendEmail.js:71): the fields the
\* dispatcher destructures from its single argument
MailObject(to, subject) ==
  [called |-> TRUE, to |-> to, subject |-> subject, success |-> TRUE]
\* sendEmail(email, subject, html): the single argument is the address text,
\* which has none of the fields to, subject, html
MailPositional(to, subject) ==
  [called |-> TRUE, to |-> Undef, subject |-> "", success |-> TRUE]

\* an exchange: the request (slot, handler, actor, :id, bag), the bag as the
\* normalizer left it (applicationData after lines 41-46) and what the
\* handler answered (status code, message, the ids of the documents in data)
Exchange(p, op, user, id, body, r, data, mail) ==
  [proc |-> p, op |-> op, user |-> user, id |-> id, body |-> body,
   norm |-> Normalize(body),
   code |-> r.code, msg |-> r.msg, data |-> data, mail |-> mail]

\* an exchange without a bag: the normalizer leaves NoBody as it is
Response(p, op, user, id, r, data, mail) ==
  [proc |-> p, op |-> op, user |-> user, id |-> id, body |-> NoBody, norm |-> NoBody,
   code |-> r.code, msg |-> r.msg, data |-> data, mail |-> mail]

Init ==
  /\ apps = <<>>
  /\ pend = [p \in Procs |-> Idle]
  /\ last = Response("", "", "", 0, Continue, {}, NoMail)

Creating == {p \in Procs : pend[p].op = "create"}

(***************************************************************************)
(* POST /api/applications                                                  *)
(***************************************************************************)
\* the handler from the first reply r of its checks on
SubmitReply(p, user, b, cap, r) ==
  IF Returns(r)
  THEN /\ last' = Exchange(p, "submit", user, 0, b, r, {}, NoMail)
       /\ UNCHANGED <<apps, pend>>
  ELSE /\ Len(apps) + Cardinality(Creating) < cap
       /\ pend' = [pend EXCEPT ![p] =
                     [Idle EXCEPT !.op = "create", !.phase = "write", !.user = user,
                                  !.snap = PreSave(NewApplication(user, b), Len(apps)),
                                  !.body = b]]
       /\ last' = IF r.code # 0
                  THEN Exchange(p, "submit", user, 0, b, r, {}, NoMail) ELSE last
       /\ UNCHANGED apps

\* lines 14-229 and the pre-save hook's countDocuments
SubmitBegin(p, user, b, cap) ==
  /\ pend[p] = Idle
  /\ SubmitReply(p, user, b, cap, SubmitChecks(b))

\* the insert of Application.create, then lines 247-269; sent is whether the
\* transport delivered the confirmation
SubmitInsert(p, sent) ==
  /\ pend[p].op = "create"
  /\ pend' = [pend EXCEPT ![p] = Idle]
  /\ IF UniqueOk(apps, 0, pend[p].snap.applicationNumber)
     THEN /\ apps' = Append(apps, pend[p].snap)
          /\ last' = Exchange(p, "submit", pend[p].user, Len(apps) + 1, pend[p].body,
                              Reply(201, MsgSubmitted), {Len(apps) + 1},
                              [MailObject(Normalize(pend[p].body).personalInfo.email,
                                          "Loan Application Submitted")
                                 EXCEPT !.success = sent])
     ELSE /\ last' = Exchange(p, "submit", pend[p].user, 0, pend[p].body,
                              Reply(500, MsgDuplicateKey), {}, NoMail)
          /\ UNCHANGED apps

(***************************************************************************)
(* GET /api/applications, GET /api/applications/:id,                       *)
(* GET /api/user/applications, GET /api/user/applications/:id              *)
(***************************************************************************)
\* ListQuery with the empty filter for every role
ListQueryAll(user) == {i \in 1..Len(apps) : TRUE}

\* application.routes.js:312-317
ListQuery(user) ==
  IF Role(user) = "admin" THEN {i \in 1..Len(apps) : TRUE}
  ELSE {i \in 1..Len(apps) : apps[i].userId = user}

ListApplications(p, user) ==
  /\ pend[p] = Idle
  /\ last' = Response(p, "list", user, 0, Reply(200, ""), ListQuery(user), NoMail)
  /\ UNCHANGED <<apps, pend>>

\* application.routes.js:341-373
GetApplication(p, user, id) ==
  /\ pend[p] = Idle
  /\ last' = IF id \notin 1..Len(apps)
             THEN Response(p, "get", user, id, Reply(404, MsgAppNotFound), {}, NoMail)
             ELSE IF Role(user) # "admin" /\ apps[id].userId # user
             THEN Response(p, "get", user, id, Reply(403, MsgNotAuthorizedView), {}, NoMail)
             ELSE Response(p, "get", user, id, Reply(200, ""), {id}, NoMail)
  /\ UNCHANGED <<apps, pend>>

\* part_000:68-86
UserListApplications(p, user) ==
  /\ pend[p] = Idle
  /\ last' = Response(p, "userList", user, 0, Reply(200, ""),
                      {i \in 1..Len(apps) : apps[i].userId = user}, NoMail)
  /\ UNCHANGED <<apps, pend>>

\* part_000:91-115
UserGetApplication(p, user, id) ==
  /\ pend[p] = Idle
  /\ last' = IF id \in 1..Len(apps) /\ apps[id].userId = user
             THEN Response(p, "userGet", user, id, Reply(200, ""), {id}, NoMail)
             ELSE Response(p, "userGet", user, id, Reply(404, MsgAppNotFound), {}, NoMail)
  /\ UNCHANGED <<apps, pend>>

(***************************************************************************)
(* PUT /api/applications/:id                                               *)
(***************************************************************************)
\* MayUpdate without the Draft test
MayUpdateOwner(user, doc) == Role(user) = "admin" \/ doc.userId = user

\* application.routes.js:390-391
MayUpdate(user, doc) ==
  Role(user) = "admin" \/ (doc.userId = user /\ doc.status = "Draft")

\* lines 380-396: findById and the authorization test
UpdateFind(p, user, id, body) ==
  /\ pend[p] = Idle
  /\ IF id \notin 1..Len(apps)
     THEN /\ last' = Response(p, "update", user, id, Reply(404, MsgAppNotFound), {}, NoMail)
          /\ UNCHANGED <<apps, pend>>
     ELSE IF ~MayUpdate(user, apps[id])
     THEN /\ last' = Response(p, "update", user, id,
                              Reply(403, MsgNotAuthorizedUpdate), {}, NoMail)
          /\ UNCHANGED <<apps, pend>>
     ELSE /\ pend' = [pend EXCEPT ![p] =
                        [Idle EXCEPT !.op = "update", !.phase = "write", !.user = user,
                                     !.id = id, !.upd = body]]
          /\ UNCHANGED <<apps, last>>

\* the document after $set of the keys the body carries
ApplyUpdate(doc, body) ==
  [doc EXCEPT !.status = IF body.status = Absent THEN @ ELSE body.status,
              !.applicationNumber =
                 IF body.applicationNumber = Absent THEN @ ELSE body.applicationNumber,
              !.loanAmount = IF body.loanAmount = Undef THEN @ ELSE body.loanAmount.n]

\* runValidators: the enum of status (part_005:88-92)
UpdateValid(body) == body.status = Absent \/ body.status \in Statuses

\* lines 398-407: findByIdAndUpdate(id, req.body, {new, runValidators})
UpdateWrite(p) ==
  LET id == pend[p].id
      body == pend[p].upd
      doc == ApplyUpdate(apps[id], body)
  IN  /\ pend[p].op = "update"
      /\ pend' = [pend EXCEPT ![p] = Idle]
      /\ IF ~UpdateValid(body)
         THEN /\ last' = Response(p, "update", pend[p].user, id,
                                  Reply(500, MsgValidationFailed), {}, NoMail)
              /\ UNCHANGED apps
         ELSE IF ~UniqueOk(apps, id, doc.applicationNumber)
         THEN /\ last' = Response(p, "update", pend[p].user, id,
                                  Reply(500, MsgDuplicateKey), {}, NoMail)
              /\ UNCHANGED apps
         ELSE /\ apps' = [apps EXCEPT ![id] = doc]
              /\ last' = Response(p, "update", pend[p].user, id, Reply(200, ""), {id}, NoMail)


(***************************************************************************)
(* POST /api/applications/:id/approve and /reject.  document.save() runs   *)
(* the pre-save hook on the document as it was read and then writes the    *)
(* paths whose value the handler changed.                                  *)
(***************************************************************************)
DefaultReason == "Application did not meet eligibility criteria"

\* ReasonText with ?? in place of ||
ReasonTextNullish(reason) == IF reason = Absent THEN DefaultReason ELSE reason

\* rejectionReason || default (line 499); Absent is a body without the key
ReasonText(reason) == IF reason \in {Absent, ""} THEN DefaultReason ELSE reason

\* of the document findById returns, the paths the two handlers and the
\* pre-save hook go on to use
ReadPaths(doc) ==
  [NoDoc EXCEPT !.status = doc.status, !.applicationNumber = doc.applicationNumber,
                !.approvedBy = doc.approvedBy, !.rejectionReason = doc.rejectionReason]

\* lines 421-440 / 479-499: the role test, findById, the in-memory changes
DecideFind(p, op, user, id, reason) ==
  /\ pend[p] = Idle
  /\ IF Role(user) # "admin"
     THEN /\ last' = Response(p, op, user, id, Reply(403, MsgNotAuthorized), {}, NoMail)
          /\ UNCHANGED <<apps, pend>>
     ELSE IF id \notin 1..Len(apps)
     THEN /\ last' = Response(p, op, user, id, Reply(404, MsgAppNotFound), {}, NoMail)
          /\ UNCHANGED <<apps, pend>>
     ELSE /\ pend' = [pend EXCEPT ![p] =
                        [Idle EXCEPT !.op = op, !.user = user, !.id = id,
                                     !.snap = ReadPaths(apps[id]), !.reason = reason,
                                     !.number = apps[id].applicationNumber,
                                     !.phase = IF apps[id].applicationNumber = ""
                                               THEN "count" ELSE "write"]]
          /\ UNCHANGED <<apps, last>>

ApproveFind(p, user, id) == DecideFind(p, "approve", user, id, Absent)
RejectFind(p, user, id, reason) == DecideFind(p, "reject", user, id, reason)

DecidedStatus(op) == IF op = "approve" THEN "Approved" ELSE "Rejected"

\* the pre-save hook's countDocuments of a document read without a number
\* (the status set by the handler is never Draft)
SaveCount(p) ==
  /\ pend[p].op \in {"approve", "reject"}
  /\ pend[p].phase = "count"
  /\ pend' = [pend EXCEPT ![p].phase = "write",
                          ![p].number = PreSave([pend[p].snap EXCEPT !.status = DecidedStatus(pend[p].op)],
                                                Len(apps)).applicationNumber]
  /\ UNCHANGED <<apps, last>>

\* a path is written when the handler gave it a value other than the one read;
\* a fresh Date always is
Modified(snap, new, cur) == IF new # snap THEN new ELSE cur

\* ApproveWrite that also unsets the fields of a rejection
ApproveWriteClearing(cur, snap, user, number) ==
  [cur EXCEPT !.status = Modified(snap.status, "Approved", @),
              !.approvedAt = "date",
              !.approvedBy = Modified(snap.approvedBy, user, @),
              !.applicationNumber = Modified(snap.applicationNumber, number, @),
              !.rejectedAt = "",
              !.rejectionReason = ""]

\* lines 438-441, as written to the stored document cur
ApproveWrite(cur, snap, user, number) ==
  [cur EXCEPT !.status = Modified(snap.status, "Approved", @),
              !.approvedAt = "date",
              !.approvedBy = Modified(snap.approvedBy, user, @),
              !.applicationNumber = Modified(snap.applicationNumber, number, @)]

\* lines 497-500
RejectWrite(cur, snap, reason, number) ==
  [cur EXCEPT !.status = Modified(snap.status, "Rejected", @),
              !.rejectedAt = "date",
              !.rejectionReason = Modified(snap.rejectionReason, reason, @),
              !.applicationNumber = Modified(snap.applicationNumber, number, @)]

DecideSave(p, op, doc, reply, subject) ==
  LET id == pend[p].id IN
  /\ pend[p].op = op
  /\ pend[p].phase = "write"
  /\ pend' = [pend EXCEPT ![p] = Idle]
  /\ IF UniqueOk(apps, id, doc.applicationNumber)
     THEN /\ apps' = [apps EXCEPT ![id] = doc]
          /\ last' = Response(p, op, pend[p].user, id, reply, {id},
                              MailPositional(Email(doc.userId), subject))
     ELSE /\ last' = Response(p, op, pend[p].user, id,
                              Reply(500, MsgDuplicateKey), {}, NoMail)
          /\ UNCHANGED apps

\* lines 441-465
ApproveSave(p) ==
  DecideSave(p, "approve",
             ApproveWrite(apps[pend[p].id], pend[p].snap, pend[p].user, pend[p].number),
             Reply(200, MsgApproved), "Loan Application Approved")

\* lines 500-524
RejectSave(p) ==
  DecideSave(p, "reject",
             RejectWrite(apps[pend[p].id], pend[p].snap,
                         ReasonText(pend[p].reason), pend[p].number),
             Reply(200, MsgRejected), "Loan Application Status")


(***************************************************************************)
(* Inputs.                                                                 *)
(***************************************************************************)
GoodPersonalInfo == PiObject(Text("Asha"), Text("a@x.in"), Text("98"))
GoodEmploymentInfo == EiObject(Text(" Salaried "), Num(100))
GoodLoanDetails == LdObject(Num(100), Undef, Num(12), Undef, FALSE)

\* a request without address, dynamicFields and files
Body(loanId, loanProductId, ld, ei, pi) ==
  [loanId |-> loanId, loanProductId |-> loanProductId, loanDetails |-> ld,
   employmentInfo |-> ei, personalInfo |-> pi,
   address |-> Undef, dynamicFields |-> DfScalar(Undef), files |-> <<>>]

GoodBody == Body("L1", "", GoodLoanDetails, GoodEmploymentInfo, GoodPersonalInfo)

\* values a client may send for an amount (valid: 100) or a tenure (valid: 12)
RawValues(valid) ==
  {Undef, Null, Text(""), Text(" "), Text("abc"), Text("Infinity"), Text("-5"),
   Num(0), Text(valid), Num(DigitsValue(Chars(valid), 0))}

LoanDetailsValues ==
  {LdObject(a, Undef, te, Undef, FALSE) : a \in RawValues("100"), te \in RawValues("12")}
  \cup {LdObject(a, pr, te, tm, FALSE) :
          a \in {Undef, Null, Text("abc")}, te \in {Undef, Num(0)},
          pr \in {Undef, Num(100)}, tm \in {Undef, Num(12)}}
  \cup {LdObject(Undef, Undef, Undef, Undef, TRUE),
        LdScalar(Undef), LdScalar(Null), LdScalar(Text("{}")), LdScalar(Text("{oops")),
        LdScalar(Text("5")), LdScalar(Num(5))}

EmploymentInfoValues ==
  {EiObject(et, mi) :
      et \in {Undef, Text(""), Text("  "), Text(" Salaried "), Num(5)},
      mi \in {Undef, Null, Text(""), Text("abc"), Text("Infinity"), Text("-Infinity"),
              Text("100"), Num(0), Num(-5), Num(100)}}
  \cup {EiScalar(Undef), EiScalar(Text("{oops")), EiScalar(Text("{}"))}

PersonalInfoValues ==
  {GoodPersonalInfo, PiObject(Text("Asha"), Undef, Text("98")), PiScalar(Undef),
   PiScalar(Text("{oops"))}

BadAmount == LdObject(Text("-5"), Undef, Num(12), Undef, FALSE)

\* the submissions of the intake specification: every loan reference with a
\* few loanDetails; every loanDetails; every employmentInfo after a good and
\* a bad loanDetails; every personalInfo after a good and a bad employmentInfo
IntakeBodies ==
  {Body(l, lp, ld, GoodEmploymentInfo, GoodPersonalInfo) :
      l \in {"", "nope", "L1", "L2", "L9"}, lp \in {"", "L1"},
      ld \in {GoodLoanDetails, LdScalar(Undef), BadAmount}}
  \cup {Body("L1", "", ld, GoodEmploymentInfo, GoodPersonalInfo) : ld \in LoanDetailsValues}
  \cup {Body("L1", "", ld, ei, GoodPersonalInfo) :
          ld \in {GoodLoanDetails, BadAmount}, ei \in EmploymentInfoValues}
  \cup {Body("L1", "", GoodLoanDetails, ei, pi) :
          ei \in {GoodEmploymentInfo, EiObject(Text("  "), Num(100))},
          pi \in PersonalInfoValues}

\* the sub-objects as a multipart form carries them: JSON text
FormLoanDetails == Text("{\"loanAmount\":\"100\",\"loanTenure\":\"12\"}")
FormAliases == Text("{\"principal\":100000,\"tenureMonths\":12}")
FormBoth ==
  Text("{\"loanAmount\":100,\"principal\":200,\"loanTenure\":12,\"tenureMonths\":1}")
FormPersonalInfo ==
  Text("{\"fullName\":\"Asha\",\"email\":\"a@x.in\",\"phone\":\"98\"}")
FormEmploymentInfo ==
  Text("{\"employmentType\":\" Salaried \",\"monthlyIncome\":\"100\"}")
FormWithRate == Text("{\"loanAmount\":100,\"loanTenure\":12,\"interestRate\":1}")
FormAddress == Text("{\"city\":\"Pune\"}")
FormDynamicFields == Text("{\"pan\":\"abc\",\"gst\":\"5\"}")
NotJSONText == Text("{oops")

SentDynamicFields ==
  DfObject([k \in {Chars("pan"), Chars("gst")} |->
              IF k = Chars("pan")
              THEN DfFiles(<<[name |-> "old.pdf", url |-> "/uploads/old"]>>)
              ELSE DfValue(Text("5"))])

\* a request: the bag b with address, dynamicFields and the uploaded files
Request(b, address, df, files) ==
  [b EXCEPT !.address = address, !.dynamicFields = df, !.files = files]

FormBody(loanId, ld, ei, pi) ==
  Body(loanId, "", LdScalar(ld), EiScalar(ei), PiScalar(pi))

GoodForm == FormBody("L1", FormLoanDetails, FormEmploymentInfo, FormPersonalInfo)

\* the i-th file of a batch, uploaded under field
FileAt(field, i) ==
  [fieldname |-> Chars(field), originalname |-> "doc" \o ToDecimal(i),
   filename |-> "f" \o ToDecimal(i)]

Batch(fields) == [i \in 1..Len(fields) |-> FileAt(fields[i], i)]

BatchFields ==
  {"selfie", "idProof", "otherDocuments",
   "dynamicFiles_pan", "dynamicFiles_2", "dynamicFiles_10", "dynamicFiles_constructor"}

\* every batch of at most MaxFiles files
Batches == {Batch(fs) : fs \in UNION {[1..k -> BatchFields] : k \in 0..MaxFiles}}

\* batches with a file of every group
LongBatches ==
  {Batch(<<"dynamicFiles_pan", "selfie", "otherDocuments", "bankStatement", "incomeProof",
           "addressProof", "idProof", "dynamicFiles_gst", "idProof", "dynamicFiles_pan">>),
   Batch(<<"idProof", "selfie", "dynamicFiles_10", "selfie", "dynamicFiles_2",
           "addressProof", "dynamicFiles_10">>)}

\* batches with files under field names the handler does not know
OtherBatches ==
  {Batch(<<"resume">>), Batch(<<"resume", "idProof", "resume">>),
   Batch(<<"selfie", "resume", "dynamicFiles_pan", "otherDocuments">>),
   Batch(<<"constructor">>), Batch(<<"idProof", "constructor">>)}

DynamicFieldsValues ==
  {DfScalar(Undef), DfScalar(FormDynamicFields), DfScalar(NotJSONText),
   DfScalar(Text("5")), SentDynamicFields}

AddressValues == {Undef, EmptyObject, FormAddress, NotJSONText}

\* the submissions of the form specification: a good form with every batch
\* and every dynamicFields; every shape of the five sub-objects with and
\* without a dynamic file; the loan terms on each product
FormRequests ==
  {Request(GoodForm, FormAddress, df, files) :
      df \in DynamicFieldsValues, files \in Batches \cup LongBatches \cup OtherBatches}
  \cup {Request(Body("L1", "", ld, ei, pi), address, df, files) :
          ld \in {LdScalar(FormLoanDetails), LdScalar(NotJSONText), GoodLoanDetails},
          ei \in {EiScalar(FormEmploymentInfo), EiScalar(NotJSONText), GoodEmploymentInfo},
          pi \in {PiScalar(FormPersonalInfo), PiScalar(NotJSONText), GoodPersonalInfo},
          address \in AddressValues,
          df \in DynamicFieldsValues,
          files \in {<<>>, Batch(<<"dynamicFiles_pan">>)}}
  \cup {Request(Body(l, "", ld, GoodEmploymentInfo, GoodPersonalInfo),
                Undef, DfScalar(Undef), <<>>) :
          l \in LoanIds,
          ld \in {LdScalar(FormAliases), LdScalar(FormBoth), LdScalar(FormWithRate)}
                 \cup {LdObject(a, pr, te, tm, FALSE) :
                         a \in {Undef, Null, Text(""), Num(100), Text("100000")},
                         pr \in {Undef, Num(200)},
                         te \in {Undef, Null, Num(12)},
                         tm \in {Undef, Text("1")}}}

UpdateBodies ==
  {[NoUpdate EXCEPT !.status = st] : st \in {"Draft", "Approved", "Closed"}}
  \cup {[NoUpdate EXCEPT !.applicationNumber = n] : n \in {"", "APP000001", "APP000002"}}

\* a body with loanDetails.loanAmount, a number
AmountUpdates == {[NoUpdate EXCEPT !.loanAmount = Num(-5)]}

Reasons == {Absent, "", "Low score"}

AppIds == 1..(Len(apps) + 1)      \* the stored ids and one that is not stored

(***************************************************************************)
(* Specifications.  Each one runs the handlers named in its next-state     *)
(* relation on its own inputs.                                             *)
(*   Spec        one request at a time: submit, update, approve, reject    *)
(*   SpecIntake  one request at a time: submissions of every shape         *)
(*   SpecRace    two requests in flight: submit, renumbering update, approve*)
(*   SpecView    one request at a time: submit and the four read handlers  *)
(*   SpecUpdate  one request at a time: submit and update                  *)
(*   SpecForm    one submission of any shape to the empty collection       *)
(*   SpecDecide  one request at a time: submit, approve, reject and the    *)
(*               update that clears a number                               *)
(*   SpecAudit   one request at a time: submit, approve, reject            *)
(*   SpecConcur  two requests in flight: submit, approve, reject           *)
(*   SpecSequence  one request at a time: submissions only                 *)
(***************************************************************************)
Next ==
  \/ \E u \in {"u1"} : SubmitBegin("p1", u, GoodBody, MaxLife)
  \/ SubmitInsert("p1", TRUE)
  \/ \E u \in Users, id \in AppIds, b \in UpdateBodies : UpdateFind("p1", u, id, b)
  \/ UpdateWrite("p1")
  \/ \E u \in Users, id \in AppIds : ApproveFind("p1", u, id)
  \/ \E u \in Users, id \in AppIds, r \in Reasons : RejectFind("p1", u, id, r)
  \/ SaveCount("p1")
  \/ ApproveSave("p1")
  \/ RejectSave("p1")

Spec == Init /\ [][Next]_vars

\* submissions and updates only
NextUpdate ==
  \/ \E u \in {"u1", "u2"} : SubmitBegin("p1", u, GoodBody, MaxUpdate)
  \/ SubmitInsert("p1", TRUE)
  \/ \E u \in Users, id \in AppIds, b \in UpdateBodies \cup AmountUpdates :
        UpdateFind("p1", u, id, b)
  \/ UpdateWrite("p1")

SpecUpdate == Init /\ [][NextUpdate]_vars

\* nothing was submitted yet
Fresh == apps = <<>> /\ last.op = ""

\* one submission, of any shape, to the empty collection
NextForm ==
  \/ Fresh /\ \E r \in FormRequests : SubmitBegin("p1", "u1", r, 1)
  \/ \E sent \in BOOLEAN : SubmitInsert("p1", sent)

SpecForm == Init /\ [][NextForm]_vars

NextIntake ==
  \/ \E b \in IntakeBodies : SubmitBegin("p1", "u1", b, MaxIntake)
  \/ \E sent \in BOOLEAN : SubmitInsert("p1", sent)

SpecIntake == Init /\ [][NextIntake]_vars

RaceUpdates == {[NoUpdate EXCEPT !.applicationNumber = n] : n \in {"", "APP000003"}}

NextRace ==
  \E p \in Procs :
    \/ SubmitBegin(p, "u1", GoodBody, MaxRace)
    \/ SubmitInsert(p, TRUE)
    \/ \E id \in AppIds, b \in RaceUpdates : UpdateFind(p, "a1", id, b)
    \/ UpdateWrite(p)
    \/ \E id \in AppIds : ApproveFind(p, "a1", id)
    \/ SaveCount(p)
    \/ ApproveSave(p)

SpecRace == Init /\ [][NextRace]_vars

\* a body that clears the applicationNumber
ClearNumber == [NoUpdate EXCEPT !.applicationNumber = ""]

\* one request at a time: submit, approve, reject and the admin's update
\* that clears a number
NextDecide ==
  \/ SubmitBegin("p1", "u1", GoodBody, MaxDecide)
  \/ SubmitInsert("p1", TRUE)
  \/ \E id \in AppIds : UpdateFind("p1", "a1", id, ClearNumber)
  \/ UpdateWrite("p1")
  \/ \E u \in {"u1", "a1"}, id \in AppIds : ApproveFind("p1", u, id)
  \/ \E id \in AppIds, r \in Reasons : RejectFind("p1", "a1", id, r)
  \/ SaveCount("p1")
  \/ ApproveSave("p1")
  \/ RejectSave("p1")

SpecDecide == Init /\ [][NextDecide]_vars

\* one request at a time: submit, approve, reject.  No stored application
\* is without a number here, so no save counts the collection
NextAudit ==
  \/ SubmitBegin("p1", "u1", GoodBody, MaxAudit)
  \/ SubmitInsert("p1", TRUE)
  \/ \E u \in Users, id \in AppIds : ApproveFind("p1", u, id)
  \/ \E u \in Users, id \in AppIds, r \in Reasons : RejectFind("p1", u, id, r)
  \/ ApproveSave("p1")
  \/ RejectSave("p1")

SpecAudit == Init /\ [][NextAudit]_vars

\* two requests in flight: submit, approve, reject
NextConcur ==
  \E p \in Procs :
    \/ SubmitBegin(p, "u1", GoodBody, MaxConcur)
    \/ SubmitInsert(p, TRUE)
    \/ \E id \in AppIds : ApproveFind(p, "a1", id)
    \/ \E id \in AppIds, r \in Reasons : RejectFind(p, "a1", id, r)
    \/ ApproveSave(p)
    \/ RejectSave(p)

SpecConcur == Init /\ [][NextConcur]_vars

\* submissions that are accepted, refused by a check, refused for an unknown
\* product and refused by the schema
SequenceBodies ==
  {GoodBody,
   Body("L1", "", BadAmount, GoodEmploymentInfo, GoodPersonalInfo),
   Body("L9", "", GoodLoanDetails, GoodEmploymentInfo, GoodPersonalInfo),
   Body("L1", "", GoodLoanDetails, GoodEmploymentInfo, PiObject(Text("Asha"), Undef, Text("98")))}

\* submissions one at a time, nothing else
NextSequence ==
  \/ \E u \in {"u1", "u2"}, b \in SequenceBodies : SubmitBegin("p1", u, b, MaxSequence)
  \/ SubmitInsert("p1", TRUE)

SpecSequence == Init /\ [][NextSequence]_vars

NextView ==
  \/ \E u \in Users : SubmitBegin("p1", u, GoodBody, MaxView)
  \/ SubmitInsert("p1", TRUE)
  \/ \E u \in Users : ListApplications("p1", u)
  \/ \E u \in Users, id \in AppIds : GetApplication("p1", u, id)
  \/ \E u \in Users : UserListApplications("p1", u)
  \/ \E u \in Users, id \in AppIds : UserGetApplication("p1", u, id)

SpecView == Init /\ [][NextView]_vars


(***************************************************************************)
(* The checks of a submission, each stated on the normalized bag n by      *)
(* itself, in the order in which the handler makes them.                   *)
(***************************************************************************)
AmountOf(n) == LoanAmountRaw(OrEmptyLd(n.loanDetails))
TenureOf(n) == LoanTenureRaw(OrEmptyLd(n.loanDetails))
EmploymentTypeOf(n) == OrEmptyEi(n.employmentInfo).employmentType
IncomeOf(n) == OrEmptyEi(n.employmentInfo).monthlyIncome

Blank(v) == ~Truthy(v) \/ (v.t = "string" /\ \A i \in 1..Len(v.s) : v.s[i] \in WhiteSpace)
NotFiniteNumber(v) == ToNumber(v).t # "number"
NotPositive(v) == ToNumber(v).t = "number" /\ ToNumber(v).n <= 0

Fails(k, n) ==
  CASE k = 1 -> RequestLoanId(n) \notin ObjectIds
    [] k = 2 -> RequestLoanId(n) \notin LoanIds
    [] k = 3 -> n.loanDetails.t # "object" \/ LdNoKeys(n.loanDetails)
    [] k = 4 -> RawMissing(AmountOf(n))
    [] k = 5 -> RawMissing(TenureOf(n))
    [] k = 6 -> NotFiniteNumber(AmountOf(n))
    [] k = 7 -> NotFiniteNumber(TenureOf(n))
    [] k = 8 -> NotPositive(AmountOf(n))
    [] k = 9 -> NotPositive(TenureOf(n))
    [] k = 10 -> Blank(EmploymentTypeOf(n))
    [] k = 11 -> ToNumber(IncomeOf(n)).t = "nan" \/ NotPositive(IncomeOf(n))
                   \/ ToNumber(IncomeOf(n)) = Inf(-1)

CheckMsg ==
  <<MsgLoanId, MsgLoanNotFound, MsgLoanDetails, MsgAmountRequired, MsgTenureRequired,
    MsgAmountNumber, MsgTenureNumber, MsgAmountPositive, MsgTenurePositive,
    MsgEmploymentType, MsgMonthlyIncome>>

Minimum(S) == CHOOSE x \in S : \A y \in S : x <= y

\* the first check that fails, 0 when none does
FirstFailed(n) ==
  LET failing == {k \in 1..11 : Fails(k, n)}
  IN  IF failing = {} THEN 0 ELSE Minimum(failing)

(***************************************************************************)
(* The rules of the specification's validator, section 4.4: a field's      *)
(* presence, number and sign tests form one rule.                          *)
(***************************************************************************)
Violates(rule, n) ==
  CASE rule = 1 -> Fails(1, n) \/ Fails(2, n)
    [] rule = 2 -> Fails(3, n)
    [] rule = 3 -> Fails(4, n) \/ Fails(6, n) \/ Fails(8, n)
    [] rule = 4 -> Fails(5, n) \/ Fails(7, n) \/ Fails(9, n)

RuleMsgs ==
  <<{MsgLoanId, MsgLoanNotFound}, {MsgLoanDetails},
    {MsgAmountRequired, MsgAmountNumber, MsgAmountPositive},
    {MsgTenureRequired, MsgTenureNumber, MsgTenurePositive}>>

FirstViolated(n) ==
  LET violated == {rule \in 1..4 : Violates(rule, n)}
  IN  IF violated = {} THEN 0 ELSE Minimum(violated)

Submitted == last.op = "submit"
Sent == Normalize(last.body)

C2_RejectionPersistsNothing ==
  [][(last' # last /\ last'.op = "submit" /\ last'.code \in {400, 404})
       => /\ apps' = apps
          /\ ~last'.mail.called
          /\ pend'[last'.proc] = Idle]_vars

\* loanAmount = -5 rejected while the collection holds an application
C2_Witness ==
  /\ Submitted /\ last.code = 400 /\ last.msg = MsgAmountPositive
  /\ AmountOf(Sent) = Text("-5") /\ Len(apps) = 1

(***************************************************************************)
(* C3.  A status becomes Approved or Rejected only by a request of an      *)
(* admin; no request of another actor, the owner's update of a Draft       *)
(* included, moves an application to Approved or Rejected.                 *)
(***************************************************************************)
C3_OnlyAdminDecides ==
  [][\A i \in 1..Len(apps) :
       (apps'[i].status \in {"Approved", "Rejected"} /\ apps'[i].status # apps[i].status)
          => Role(last'.user) = "admin"]_vars

(***************************************************************************)
(* C4.  Once an application holds an applicationNumber, no later operation *)
(* replaces, clears or reassigns it.                                       *)
(***************************************************************************)
C4_NumberNeverChanges ==
  [][\A i \in 1..Len(apps) :
       apps[i].applicationNumber # ""
          => apps'[i].applicationNumber = apps[i].applicationNumber]_vars

(***************************************************************************)
(* C5.  No two persisted applications carry the same applicationNumber,    *)
(* concurrent submissions included: a submission whose computed number is  *)
(* held by a persisted application is not persisted.                       *)
(***************************************************************************)
C5_UniqueNumbers ==
  /\ [](\A i, j \in 1..Len(apps) :
          i # j /\ apps[i].applicationNumber # ""
             => apps[i].applicationNumber # apps[j].applicationNumber)
  /\ [][\A p \in Procs :
          (/\ pend[p].op = "create" /\ pend'[p] = Idle
           /\ \E i \in 1..Len(apps) :
                 apps[i].applicationNumber = pend[p].snap.applicationNumber)
             => apps' = apps]_vars

\* two submissions counted the empty collection; the second insert was refused
C5_Witness ==
  /\ Submitted /\ last.msg = MsgDuplicateKey
  /\ Len(apps) = 1 /\ apps[1].applicationNumber = FormatNumber(0)

(***************************************************************************)
(* C6.  An update of an existing application changes it only when the      *)
(* actor is an admin, or is the owner while the status is Draft; any other *)
(* actor gets 403 and the stored application stays as it was.              *)
(***************************************************************************)
Authorized(user, doc) ==
  Role(user) = "admin" \/ (doc.userId = user /\ doc.status = "Draft")

C6_UpdateAuthorization ==
  [][/\ (last' # last /\ last'.op = "update" /\ last'.code = 403)
          => apps' = apps /\ pend' = pend /\ ~Authorized(last'.user, apps[last'.id])
     /\ \A i \in 1..Len(apps) :
          (apps'[i] # apps[i] /\ last'.op = "update") => Authorized(last'.user, apps[i])
     /\ \A p \in Procs :
          (pend[p].op = "idle" /\ pend'[p].op = "update")
             => Authorized(pend'[p].user, apps[pend'[p].id])]_vars

\* the owner is refused once the application is no longer a Draft
C6_Witness ==
  /\ last.op = "update" /\ last.code = 403 /\ last.id \in 1..Len(apps)
  /\ apps[last.id].userId = last.user /\ apps[last.id].status # "Draft"


(***************************************************************************)
(* C7.  As stated: GET /api/applications/:id returns the record only to an *)
(* admin or the owner, 403 otherwise; the list operations return to a      *)
(* non-admin exactly the applications whose userId is the requester, and   *)
(* to an admin all applications.                                           *)
(***************************************************************************)
Own(user) == {i \in 1..Len(apps) : apps[i].userId = user}
All == 1..Len(apps)

GetOnlyForOwnerOrAdmin ==
  (last.op = "get" /\ last.id \in All)
     => IF Role(last.user) = "admin" \/ apps[last.id].userId = last.user
        THEN last.code = 200 /\ last.data = {last.id}
        ELSE last.code = 403 /\ last.data = {}

C7_AdminListsAll ==
  /\ GetOnlyForOwnerOrAdmin
  /\ last.op \in {"list", "userList"}
       => last.data = IF Role(last.user) = "admin" THEN All ELSE Own(last.user)

(***************************************************************************)
(* C7, amended.  GET /api/applications/:id returns the record only to an   *)
(* admin or the owner, 403 otherwise; GET /api/applications returns to a   *)
(* non-admin exactly the applications whose userId is the requester and to *)
(* an admin all applications; GET /api/user/applications returns to every  *)
(* requester, an admin included, exactly the requester's own applications, *)
(* and GET /api/user/applications/:id returns a record only to its owner.  *)
(* No response to a non-admin holds an application of another user.        *)
(***************************************************************************)
C7_Views ==
  /\ GetOnlyForOwnerOrAdmin
  /\ last.op = "list"
       => last.data = IF Role(last.user) = "admin" THEN All ELSE Own(last.user)
  /\ last.op = "userList" => last.data = Own(last.user)
  /\ last.op = "userGet" => last.data = {last.id} \cap Own(last.user)
  /\ Role(last.user) # "admin" => last.data \subseteq Own(last.user)

\* a non-admin lists while the collection holds another user's application
C7_Witness ==
  /\ last.op = "list" /\ Role(last.user) = "user"
  /\ last.data # {} /\ Own(last.user) # All

(***************************************************************************)
(* C8.  Every application a submission creates is persisted with status    *)
(* Submitted and a non-empty applicationNumber that no application         *)
(* persisted at that moment holds.                                         *)
(***************************************************************************)
C8_CreatedSubmittedAndNumbered ==
  [][Len(apps') > Len(apps)
       => /\ Len(apps') = Len(apps) + 1
          /\ last'.op = "submit" /\ last'.code = 201
          /\ apps'[Len(apps')].status = "Submitted"
          /\ apps'[Len(apps')].applicationNumber # ""
          /\ \A i \in 1..Len(apps) :
                apps[i].applicationNumber # apps'[Len(apps')].applicationNumber]_vars

\* a second application was created after the first was renumbered
C8_Witness ==
  /\ Submitted /\ last.code = 201 /\ Len(apps) = 2
  /\ apps[1].applicationNumber = "APP000003" /\ apps[2].applicationNumber = FormatNumber(1)

(***************************************************************************)
(* C9.  A submission is accepted only if its loan reference resolves to a  *)
(* loan product that is active.                                            *)
(***************************************************************************)
C9_ActiveLoanOnly ==
  (Submitted /\ last.code = 201) => Loans[RequestLoanId(Sent)].isActive

(***************************************************************************)
(* C10.  A submission that passes the earlier rules is accepted only if    *)
(* employmentInfo.monthlyIncome coerces to a finite, strictly positive     *)
(* number; any other monthly income gets the monthly-income 400 message.   *)
(***************************************************************************)
IncomeFinitePositive(n) ==
  ToNumber(IncomeOf(n)).t = "number" /\ ToNumber(IncomeOf(n)).n > 0

PassesEarlierRules(n) ==
  /\ \A k \in 1..10 : ~Fails(k, n)
  /\ EmploymentTypeOf(n).t = "string"

C10_IncomeFinitePositive ==
  Submitted =>
    /\ last.code = 201 => IncomeFinitePositive(Sent)
    /\ (PassesEarlierRules(Sent) /\ ~IncomeFinitePositive(Sent))
          => last.code = 400 /\ last.msg = MsgMonthlyIncome

(***************************************************************************)
(* C11.  A submission that passes the loan checks and whose employmentType *)
(* is absent or only white space is answered 400 with the employment-type  *)
(* message, whatever its other fields, and the step creates no application;*)
(* the employmentType of every application a submission creates is the     *)
(* text that was sent with its leading and trailing white space removed,   *)
(* and is not empty.                                                       *)
(***************************************************************************)
AbsentOrWhiteSpace(v) ==
  \/ v.t \in {"undefined", "null"}
  \/ v.t = "string" /\ \A i \in 1..Len(v.s) : v.s[i] \in WhiteSpace

\* out is cs without its leading and trailing white space
IsTrimOf(out, cs) ==
  /\ out # <<>> => Head(out) \notin WhiteSpace /\ out[Len(out)] \notin WhiteSpace
  /\ \E i \in 1..(Len(cs) + 1), j \in 0..Len(cs) :
        /\ out = SubSeq(cs, i, j)
        /\ \A k \in (1..(i - 1)) \cup ((j + 1)..Len(cs)) : cs[k] \in WhiteSpace

C11_EmploymentTypeRequired ==
  /\ [](Submitted =>
         /\ (FirstFailed(Sent) \notin 1..9 /\ AbsentOrWhiteSpace(EmploymentTypeOf(Sent)))
               => last.code = 400 /\ last.msg = MsgEmploymentType /\ last.data = {}
         /\ last.code = 201
               => /\ EmploymentTypeOf(Sent).t = "string"
                  /\ apps[last.id].employmentType # <<>>
                  /\ IsTrimOf(apps[last.id].employmentType, EmploymentTypeOf(Sent).s))
  /\ [][(last' # last /\ last'.op = "submit" /\ last'.msg = MsgEmploymentType)
          => apps' = apps /\ pend'[last'.proc] = Idle]_vars

\* white space only, every other field valid: rejected; and " Salaried " stored trimmed
C11_Witness ==
  /\ Submitted /\ last.code = 400 /\ last.msg = MsgEmploymentType
  /\ EmploymentTypeOf(Sent) = Text("  ")
  /\ FirstFailed([Sent EXCEPT !.employmentInfo = GoodEmploymentInfo]) = 0
  /\ SchemaChecks(Sent) = Continue
  /\ Len(apps) = 1 /\ Len(apps[1].employmentType) = 8

(***************************************************************************)
(* C12.  The normalizer, for each of the five keys personalInfo, address,   *)
(* employmentInfo, loanDetails, dynamicFields: a text that is valid JSON is *)
(* replaced by the value it denotes, a text that is not stays the text it   *)
(* was, a value that is not text is untouched; no other key of the bag      *)
(* changes, and the request is answered by the steps after the normalizer   *)
(* (a check's reply for the normalized bag, or the 201), never by it.       *)
(***************************************************************************)
\* out is the value the JSON result r denotes, as the key's sub-object
IsParsedValue(out, key, r) ==
  /\ Plain(out) = r.v
  /\ (key = "loanDetails" /\ r.v.t = "object") =>
       /\ out.loanAmount = Member(r, Chars("loanAmount"))
       /\ out.principal = Member(r, Chars("principal"))
       /\ out.loanTenure = Member(r, Chars("loanTenure"))
       /\ out.tenureMonths = Member(r, Chars("tenureMonths"))
  /\ (key = "employmentInfo" /\ r.v.t = "object") =>
       /\ out.employmentType = Member(r, Chars("employmentType"))
       /\ out.monthlyIncome = Member(r, Chars("monthlyIncome"))
  /\ (key = "personalInfo" /\ r.v.t = "object") =>
       /\ out.fullName = Member(r, Chars("fullName"))
       /\ out.email = Member(r, Chars("email"))
       /\ out.phone = Member(r, Chars("phone"))
  /\ (key = "dynamicFields" /\ r.v.t = "object") =>
       /\ DOMAIN out.map = {r.members[i][1] : i \in 1..Len(r.members)}
       /\ \A k \in DOMAIN out.map : Plain(out.map[k]) = Member(r, k)

C12_NormalizerContract ==
  Submitted =>
    /\ \A key \in NormalizedKeys :
         IF last.body[key].t = "string" /\ JSONParse(last.body[key].s).ok
         THEN IsParsedValue(last.norm[key], key, JSONParse(last.body[key].s))
         ELSE last.norm[key] = last.body[key]
    /\ \A key \in (DOMAIN last.body) \ NormalizedKeys : last.norm[key] = last.body[key]
    /\ \/ last.code = 201 /\ NormalizedChecks(last.norm) = Continue
       \/ Reply(last.code, last.msg) = NormalizedChecks(last.norm)

\* one request with a text that parses, a text that does not and an object:
\* the first is parsed, the second is kept and a later check answers
C12_Witness ==
  /\ Submitted
  /\ last.body.loanDetails = LdScalar(FormLoanDetails)
  /\ last.norm.loanDetails.t = "object" /\ last.norm.loanDetails.loanAmount = Text("100")
  /\ last.body.address = NotJSONText /\ last.norm.address = NotJSONText
  /\ last.body.personalInfo = GoodPersonalInfo /\ last.norm.personalInfo = GoodPersonalInfo
  /\ last.code = 400 /\ last.msg = MsgValidationFailed

(***************************************************************************)
(* C13.  As stated: a submission in which one of the five sub-objects is a  *)
(* text that is not valid JSON creates no application and is answered 400,  *)
(* never 201 and never 500, also when files of dynamic fields are uploaded. *)
(***************************************************************************)
MalformedKeys(b) ==
  {key \in NormalizedKeys : b[key].t = "string" /\ ~JSONParse(b[key].s).ok}

C13_MalformedTextRejected ==
  /\ (Submitted /\ MalformedKeys(last.body) # {}) => last.code = 400 /\ last.data = {}
  /\ \A p \in Procs : pend[p].op = "create" => MalformedKeys(pend[p].body) = {}

(***************************************************************************)
(* C14.  The emi of every application a submission creates is determined   *)
(* by its loanAmount P, its resolved annual rate R and its loanTenure n:    *)
(* with r = R / 100 / 12 it is P * r * (1 + r)^n / ((1 + r)^n - 1) rounded  *)
(* to the nearest integer when R > 0 (8885 for 100000, 12, 12), it is 0     *)
(* when R = 0, and it is never negative.                                    *)
(***************************************************************************)
\* e is the integer nearest to N / D, a half counting upwards:
\* 2 * D * e <= 2 * N + D < 2 * D * (e + 1)
IsNearest(e, N, D) ==
  /\ BigLeq(BigMulInt(BigMulInt(D, 2), e), BigAdd(BigMulInt(N, 2), D, 0))
  /\ ~BigLeq(BigMulInt(BigMulInt(D, 2), e + 1), BigAdd(BigMulInt(N, 2), D, 0))

\* with A = 1200 + R the quotient is P * R * A^n / (1200 * (A^n - 1200^n))
IsInstalmentOf(e, P, R, pw, pwUnit) ==
  IsNearest(e, BigMulInt(BigMulInt(pw, R), P), BigMulInt(BigSub(pw, pwUnit), 1200))

IsInstalment(e, P, R, n) == IsInstalmentOf(e, P, R, BigPow(1200 + R, n), BigPow(1200, n))

C14_EmiFormula ==
  \A i \in 1..Len(apps) :
    /\ apps[i].emi >= 0
    /\ apps[i].interestRate.n = 0 => apps[i].emi = 0
    /\ apps[i].interestRate.n > 0 =>
         IsInstalment(apps[i].emi, apps[i].loanAmount, apps[i].interestRate.n,
                      apps[i].loanTenure)
    /\ (apps[i].loanAmount = 100000 /\ apps[i].interestRate.n = 12
          /\ apps[i].loanTenure = 12) => apps[i].emi = 8885

\* 100000 at 12 per cent over 12 months is persisted with emi 8885
C14_Witness ==
  /\ Submitted /\ last.code = 201
  /\ apps[last.id].loanAmount = 100000 /\ apps[last.id].loanTenure = 12
  /\ apps[last.id].interestRate = Num(12) /\ apps[last.id].emi = 8885

(***************************************************************************)
(* C15.  The loan amount is the value under loanAmount when one is there    *)
(* (not undefined, not null) and otherwise the value under principal, the   *)
(* tenure likewise from loanTenure and tenureMonths: that value is the one  *)
(* validated, so with every other field valid the submission is accepted    *)
(* exactly when both are present, finite and positive, aliases alone        *)
(* included; the created application holds their numbers as loanAmount and  *)
(* loanTenure, with the resolved interestRate and the emi computed of them. *)
(***************************************************************************)
Resolved(canonical, alias) ==
  IF canonical.t \in {"undefined", "null"} THEN alias ELSE canonical

IsPositiveFinite(v) ==
  /\ v.t \notin {"undefined", "null"} /\ v # Text("")
  /\ ToNumber(v).t = "number" /\ ToNumber(v).n > 0

\* the request is valid but for the loan terms
OtherFieldsValid(b) ==
  /\ RequestLoanId(b) \in LoanIds
  /\ b.loanDetails.t = "object" /\ ~LdNoKeys(b.loanDetails)
  /\ b.employmentInfo = GoodEmploymentInfo /\ b.personalInfo = GoodPersonalInfo
  /\ b.address = Undef /\ b.dynamicFields = DfScalar(Undef) /\ b.files = <<>>

C15_CanonicalNamesWin ==
  (Submitted /\ last.norm.loanDetails.t = "object") =>
    /\ last.code = 201 =>
         /\ apps[last.id].loanAmount =
              ToNumber(Resolved(last.norm.loanDetails.loanAmount,
                                last.norm.loanDetails.principal)).n
         /\ apps[last.id].loanTenure =
              ToNumber(Resolved(last.norm.loanDetails.loanTenure,
                                last.norm.loanDetails.tenureMonths)).n
         /\ apps[last.id].interestRate = AnnualRate(Loans[apps[last.id].loanId])
         /\ apps[last.id].emi = Emi(apps[last.id].loanAmount, apps[last.id].interestRate.n,
                                    apps[last.id].loanTenure)
    /\ OtherFieldsValid(last.norm) =>
         (last.code = 201 <=>
            /\ IsPositiveFinite(Resolved(last.norm.loanDetails.loanAmount,
                                         last.norm.loanDetails.principal))
            /\ IsPositiveFinite(Resolved(last.norm.loanDetails.loanTenure,
                                         last.norm.loanDetails.tenureMonths)))

\* both names sent with different values: the canonical ones are persisted
C15_Witness ==
  /\ Submitted /\ last.code = 201 /\ last.body.loanDetails = LdScalar(FormBoth)
  /\ last.norm.loanDetails.principal = Num(200) /\ apps[last.id].loanAmount = 100
  /\ last.norm.loanDetails.tenureMonths = Num(1) /\ apps[last.id].loanTenure = 12

\* aliases alone: accepted, persisted under the canonical names
C15_AliasOnly ==
  /\ Submitted /\ last.code = 201 /\ last.body.loanDetails = LdScalar(FormAliases)
  /\ last.norm.loanDetails.loanAmount = Undef /\ last.norm.loanDetails.loanTenure = Undef
  /\ apps[last.id].loanAmount = 100000 /\ apps[last.id].loanTenure = 12

(***************************************************************************)
(* C16.  As stated: in every reachable state every stored application has  *)
(* a loanAmount that is a positive number, a loanTenure that is a positive  *)
(* integer and an emi that is a non-negative integer.                       *)
(***************************************************************************)
C16_LoanDetailsInvariant ==
  \A i \in 1..Len(apps) :
    /\ apps[i].loanAmount \in Nat \ {0}
    /\ apps[i].loanTenure \in Nat \ {0}
    /\ apps[i].emi \in Nat

(***************************************************************************)
(* C17.  When the batch has two or more files under the field selfie, the   *)
(* created application has exactly one document of type Selfie, made of the *)
(* first of them in batch order; the other selfie files give no document,   *)
(* and a reply that is not the 201 is the one the request gets without its  *)
(* selfie files.                                                            *)
(***************************************************************************)
SelfieIndices(files) == {i \in 1..Len(files) : files[i].fieldname = Chars("selfie")}

FirstIndex(S) == CHOOSE i \in S : \A j \in S : i <= j

WithoutSelfies(files) == SelectSeq(files, LAMBDA f : f.fieldname # Chars("selfie"))

OneSelfieDocument(docs, files, first) ==
  /\ Cardinality({j \in 1..Len(docs) : docs[j].type = "Selfie"}) = 1
  /\ \A j \in 1..Len(docs) :
        docs[j].type = "Selfie" =>
          /\ docs[j].name = files[first].originalname
          /\ docs[j].url = "/uploads/" \o files[first].filename
  /\ \A i \in SelfieIndices(files) \ {first} :
        \A j \in 1..Len(docs) : docs[j].name # files[i].originalname

C17_OneSelfie ==
  (Submitted /\ Cardinality(SelfieIndices(last.body.files)) >= 2) =>
    IF last.code = 201
    THEN OneSelfieDocument(apps[last.id].documents, last.body.files,
                           FirstIndex(SelfieIndices(last.body.files)))
    ELSE Reply(last.code, last.msg) =
           NormalizedChecks([last.norm EXCEPT !.files = WithoutSelfies(@)])

\* selfie files at the places 2 and 4 of the batch: the document is of the one at 2
C17_Witness ==
  /\ Submitted /\ last.code = 201
  /\ SelfieIndices(last.body.files) = {2, 4}
  /\ \E j \in 1..Len(apps[last.id].documents) :
        /\ apps[last.id].documents[j].type = "Selfie"
        /\ apps[last.id].documents[j].name = last.body.files[2].originalname

(***************************************************************************)
(* C18.  As stated: for every name f with files uploaded under              *)
(* dynamicFiles_f, in a request that is valid without its files and whose   *)
(* dynamicFields is a map or is not given, the application is created with  *)
(* dynamicFields[f] the list of the {name, url} pairs of exactly those      *)
(* files in batch order, whatever was submitted under f, with one document  *)
(* of type "Dynamic: f" per such file, and with the entries of the other    *)
(* names as they were submitted.                                            *)
(***************************************************************************)
FilesUnder(files, f) == SelectSeq(files, LAMBDA x : x.fieldname = DynamicPrefix \o f)

UploadedNames(files) ==
  {SubSeq(files[i].fieldname, Len(DynamicPrefix) + 1, Len(files[i].fieldname)) :
     i \in {j \in 1..Len(files) : StartsWith(files[j].fieldname, DynamicPrefix)}}

Pairs(group) ==
  [i \in 1..Len(group) |->
     [name |-> group[i].originalname, url |-> "/uploads/" \o group[i].filename]]

NamesOf(docs) == [i \in 1..Len(docs) |-> docs[i].name]

OriginalNames(group) == [i \in 1..Len(group) |-> group[i].originalname]

DynamicFilesRecorded(doc, files, submitted) ==
  /\ \A f \in UploadedNames(files) :
        /\ f \in DOMAIN doc.dynamicFields.map
        /\ doc.dynamicFields.map[f] = DfFiles(Pairs(FilesUnder(files, f)))
        /\ NamesOf(SelectSeq(doc.documents,
                             LAMBDA d : d.type = "Dynamic: " \o FromChars(f)))
             = OriginalNames(FilesUnder(files, f))
  /\ \A k \in (DOMAIN submitted.map) \ UploadedNames(files) :
        k \in DOMAIN doc.dynamicFields.map /\ doc.dynamicFields.map[k] = submitted.map[k]

C18_DynamicFilesRecorded ==
  (/\ Submitted /\ UploadedNames(last.body.files) # {}
   /\ OrEmptyDf(last.norm.dynamicFields).t = "object"
   /\ NormalizedChecks([last.norm EXCEPT !.files = <<>>]) = Continue) =>
     /\ last.code = 201
     /\ DynamicFilesRecorded(apps[last.id], last.body.files,
                             OrEmptyDf(last.norm.dynamicFields))

\* C18 for the names that a fresh object does not inherit
C18_OwnNames ==
  (/\ Submitted /\ UploadedNames(last.body.files) # {}
   /\ UploadedNames(last.body.files) \cap ObjectPrototypeNames = {}
   /\ OrEmptyDf(last.norm.dynamicFields).t = "object"
   /\ NormalizedChecks([last.norm EXCEPT !.files = <<>>]) = Continue) =>
     /\ last.code = 201
     /\ DynamicFilesRecorded(apps[last.id], last.body.files,
                             OrEmptyDf(last.norm.dynamicFields))

(***************************************************************************)
(* C19.  As stated: the documents of a created application are ordered: the *)
(* ID documents, then Address, Income, Bank Statement, Other, the Selfie,   *)
(* then the groups of the dynamic fields in the order in which their names  *)
(* first occur in the batch, whatever the names are, and inside a group in  *)
(* the order of the batch.                                                  *)
(***************************************************************************)
\* the place in the batch of the file a document was made of
FileIndex(files, d) == CHOOSE i \in 1..Len(files) : files[i].originalname = d.name

\* the place at which the field name of the file at i first occurs
FirstOccurrence(files, i) ==
  CHOOSE j \in 1..i :
    /\ files[j].fieldname = files[i].fieldname
    /\ \A k \in 1..(j - 1) : files[k].fieldname # files[i].fieldname

GroupRank(type) ==
  CASE type = "ID" -> 1 [] type = "Address" -> 2 [] type = "Income" -> 3
    [] type = "Bank Statement" -> 4 [] type = "Other" -> 5 [] type = "Selfie" -> 6
    [] OTHER -> 7

\* the document of the file at i comes ahead of the document of the file at j
ComesBefore(files, ti, i, tj, j) ==
  \/ GroupRank(ti) < GroupRank(tj)
  \/ /\ GroupRank(ti) = GroupRank(tj)
     /\ \/ FirstOccurrence(files, i) < FirstOccurrence(files, j)
        \/ files[i].fieldname = files[j].fieldname /\ i < j

C19_DocumentOrder ==
  (Submitted /\ last.code = 201) =>
    \A i, j \in 1..Len(apps[last.id].documents) :
      i < j => ComesBefore(last.body.files,
                           apps[last.id].documents[i].type,
                           FileIndex(last.body.files, apps[last.id].documents[i]),
                           apps[last.id].documents[j].type,
                           FileIndex(last.body.files, apps[last.id].documents[j]))

\* C19 for batches whose dynamic field names are not array indices
C19_NamesNotIndices ==
  (/\ Submitted /\ last.code = 201
   /\ \A f \in UploadedNames(last.body.files) : ~IsArrayIndex(f)) =>
    \A i, j \in 1..Len(apps[last.id].documents) :
      i < j => ComesBefore(last.body.files,
                           apps[last.id].documents[i].type,
                           FileIndex(last.body.files, apps[last.id].documents[i]),
                           apps[last.id].documents[j].type,
                           FileIndex(last.body.files, apps[last.id].documents[j]))

(***************************************************************************)
(* C20.  As stated: when the dispatch of the confirmation mail fails during *)
(* a submission, the response is an error response and not the 201, the     *)
(* application being stored already.                                        *)
(***************************************************************************)
C20_MailFailureIsError ==
  (Submitted /\ last.mail.called /\ ~last.mail.success) => last.code >= 400

(***************************************************************************)
(* C21.  As stated: every approve and every reject answered 200 hands      *)
(* sendEmail a single argument whose field to is the email of the owner of *)
(* the application and whose field subject is the approval subject,        *)
(* respectively the rejection subject.                                     *)
(***************************************************************************)
Decided == last.op \in {"approve", "reject"} /\ last.code = 200

DecisionSubject(op) ==
  IF op = "approve" THEN "Loan Application Approved" ELSE "Loan Application Status"

C21_DecisionMailAddressed ==
  Decided => /\ last.mail.called
             /\ last.mail.to.t = "string"
             /\ FromChars(last.mail.to.s) = Email(apps[last.id].userId)
             /\ last.mail.subject = DecisionSubject(last.op)

(***************************************************************************)
(* C22.  As stated: an approve by an admin on an existing application,     *)
(* whatever its status, is answered 200, leaves the application with       *)
(* status Approved, approvedAt stamped and approvedBy the acting admin,    *)
(* and hands a notification to sendEmail; so does every further approve of *)
(* the same application.                                                   *)
(***************************************************************************)
ApproveOfExisting ==
  last.op = "approve" /\ Role(last.user) = "admin" /\ last.id \in 1..Len(apps)

C22_ApproveAlwaysSucceeds ==
  ApproveOfExisting =>
    /\ last.code = 200
    /\ apps[last.id].status = "Approved"
    /\ apps[last.id].approvedAt # ""
    /\ apps[last.id].approvedBy = last.user
    /\ last.mail.called

\* C22 for the applications that hold a number when they are approved
C22_NumberedApplications ==
  [][(/\ last' # last /\ last'.op = "approve" /\ Role(last'.user) = "admin"
      /\ last'.id \in 1..Len(apps) /\ apps[last'.id].applicationNumber # "")
        => /\ last'.code = 200
           /\ apps'[last'.id].status = "Approved"
           /\ apps'[last'.id].approvedAt # ""
           /\ apps'[last'.id].approvedBy = last'.user
           /\ last'.mail.called]_vars

(***************************************************************************)
(* C23.  A reject by an admin answered 200 leaves the application with     *)
(* status Rejected, rejectedAt stamped and rejectionReason the reason of   *)
(* the request when it has one that is not empty, the fixed default reason *)
(* otherwise, and never the empty text; a reject by an admin is answered   *)
(* 404 exactly when the id is of no stored application, and then the       *)
(* collection is as it was and nothing of the request stays in flight.     *)
(***************************************************************************)
RejectSaved(p) == pend[p].op = "reject" /\ pend'[p] = Idle /\ last'.code = 200

Supplied(reason) == reason # Absent /\ reason # ""

DecimalDigit(d) == <<"0", "1", "2", "3", "4", "5", "6", "7", "8", "9">>[d + 1]

SixDigits(k) ==
  DecimalDigit((k \div 100000) % 10) \o DecimalDigit((k \div 10000) % 10)
    \o DecimalDigit((k \div 1000) % 10) \o DecimalDigit((k \div 100) % 10)
    \o DecimalDigit((k \div 10) % 10) \o DecimalDigit(k % 10)

InsertBy(p) == pend[p].op = "create" /\ pend'[p] = Idle

CountBy(p) == pend[p] = Idle /\ pend'[p].op = "create"

\* q is in flight with the number of the collection as it is now
CountedThis(q) ==
  pend[q].op = "create" /\ pend[q].snap.applicationNumber = "APP" \o SixDigits(Len(apps) + 1)

Held(number) == \E i \in 1..Len(apps) : apps[i].applicationNumber = number

C24_ConcurrentSameNumber ==
  /\ [][\A p, q \in Procs :
          (CountBy(p) /\ CountedThis(q))
             => pend'[p].snap.applicationNumber = pend[q].snap.applicationNumber]_vars
  /\ [][\A p \in Procs :
          InsertBy(p) =>
            IF Held(pend[p].snap.applicationNumber)
            THEN last'.code = 500 /\ apps' = apps
            ELSE /\ last'.code = 201 /\ Len(apps') = Len(apps) + 1
                 /\ apps'[Len(apps')].applicationNumber = pend[p].snap.applicationNumber]_vars

\* one of two submissions that counted the same collection was answered 201;
\* the other is still in flight with the number the first now holds
C24_Witness ==
  /\ Submitted /\ last.code = 201
  /\ \E q \in Creating :
        /\ q # last.proc
        /\ pend[q].snap.applicationNumber = apps[last.id].applicationNumber

(***************************************************************************)
(* C25.  As stated: of an approve and a reject in flight together on one   *)
(* application, each save is answered 200 and hands a notification to      *)
(* sendEmail, keeps the audit fields of the other decision, and leaves the *)
(* status that of the save that ran, so that the final status is that of   *)
(* the save that ran last.                                                 *)
(***************************************************************************)
SaveBy(p) == pend[p].op \in {"approve", "reject"} /\ pend'[p] = Idle

KeepsOtherAudit(op, before, after) ==
  IF op = "approve"
  THEN after.rejectedAt = before.rejectedAt /\ after.rejectionReason = before.rejectionReason
  ELSE after.approvedAt = before.approvedAt /\ after.approvedBy = before.approvedBy

C25_LastSaveWins ==
  [][\A p \in Procs :
       SaveBy(p) =>
         /\ last'.code = 200 /\ last'.mail.called
         /\ KeepsOtherAudit(pend[p].op, apps[pend[p].id], apps'[pend[p].id])
         /\ apps'[pend[p].id].status = (IF pend[p].op = "approve" THEN "Approved"
                                        ELSE "Rejected")]_vars

\* C25 without the final status: both complete, both dispatch, and the
\* record keeps the audit fields of both
C25_BothComplete ==
  [][\A p \in Procs :
       SaveBy(p) =>
         /\ last'.code = 200 /\ last'.mail.called
         /\ KeepsOtherAudit(pend[p].op, apps[pend[p].id], apps'[pend[p].id])]_vars

(***************************************************************************)
(* C26.  With submissions handled one at a time and nothing else, the k-th *)
(* stored application holds the number APP followed by k written with six  *)
(* digits, whatever submissions were refused before it: a submission that  *)
(* is not answered 201 stores nothing and so takes no number.              *)
(***************************************************************************)
C26_SequentialNumbers ==
  /\ [](\A k \in 1..Len(apps) : apps[k].applicationNumber = "APP" \o SixDigits(k))
  /\ [][(last' # last /\ last'.op = "submit")
          => IF last'.code = 201 THEN Len(apps') = Len(apps) + 1 ELSE apps' = apps]_vars

\* the third application was created by the other user
C26_Witness ==
  /\ Submitted /\ last.code = 201 /\ Len(apps) = 3
  /\ apps[3].applicationNumber = "APP000003" /\ apps[3].userId # apps[1].userId

(***************************************************************************)
(* C27.  The interestRate of every application a submission creates is the *)
(* default rate of its loan product when that is defined, 0 included,      *)
(* otherwise the minimum rate of the product when that is defined,         *)
(* otherwise 0, whatever the request carries under loanDetails.            *)
(***************************************************************************)
IsDefined(v) == v.t # "undefined" /\ v.t # "null"

ProductRate(loan) ==
  CASE IsDefined(loan.rateDefault) -> loan.rateDefault
    [] ~IsDefined(loan.rateDefault) /\ IsDefined(loan.rateMin) -> loan.rateMin
    [] OTHER -> Num(0)

C27_RateOfProduct ==
  (Submitted /\ last.code = 201) =>
    apps[last.id].interestRate = ProductRate(Loans[RequestLoanId(last.norm)])

\* the request carried an interestRate of its own; the product has no default
\* rate and the minimum rate was stored
C27_Witness ==
  /\ Submitted /\ last.code = 201
  /\ last.body.loanDetails = LdScalar(FormWithRate) /\ last.norm.loanDetails.purpose
  /\ ~IsDefined(Loans[RequestLoanId(last.norm)].rateDefault)
  /\ apps[last.id].interestRate = Num(10)

(***************************************************************************)
(* C28.  As stated: the documents of a created application are exactly one *)
(* document per file under idProof, addressProof, incomeProof,             *)
(* bankStatement, otherDocuments (of type ID, Address, Income, Bank        *)
(* Statement, Other), one for the first file under selfie, and one per     *)
(* file of a dynamic field; each has status Pending and the url /uploads/  *)
(* followed by the stored filename, no file gives two documents, and a     *)
(* file under any other field name gives no document and no error: the     *)
(* request is answered as it is without that file.                         *)
(***************************************************************************)
FixedTypes ==
  [f \in {Chars("idProof"), Chars("addressProof"), Chars("incomeProof"),
          Chars("bankStatement"), Chars("otherDocuments")} |->
     CASE f = Chars("idProof") -> "ID"
       [] f = Chars("addressProof") -> "Address"
       [] f = Chars("incomeProof") -> "Income"
       [] f = Chars("bankStatement") -> "Bank Statement"
       [] f = Chars("otherDocuments") -> "Other"]

HasDynamicName(file) == StartsWith(file.fieldname, Chars("dynamicFiles_"))

IsOtherFile(file) ==
  /\ file.fieldname \notin DOMAIN FixedTypes
  /\ file.fieldname # Chars("selfie")
  /\ ~HasDynamicName(file)

\* the files that are to give a document
Documented(files) ==
  {i \in 1..Len(files) :
     \/ files[i].fieldname \in DOMAIN FixedTypes
     \/ HasDynamicName(files[i])
     \/ i \in SelfieIndices(files) /\ i = FirstIndex(SelfieIndices(files))}

TypeOfFile(file) ==
  IF file.fieldname \in DOMAIN FixedTypes THEN FixedTypes[file.fieldname]
  ELSE IF file.fieldname = Chars("selfie") THEN "Selfie"
  ELSE "Dynamic: " \o FromChars(SubSeq(file.fieldname, 14, Len(file.fieldname)))

DocumentOfFile(file) ==
  [type |-> TypeOfFile(file), name |-> file.originalname,
   url |-> "/uploads/" \o file.filename, status |-> "Pending"]

OneDocumentPerFile(docs, files) ==
  /\ Len(docs) = Cardinality(Documented(files))
  /\ \A i \in Documented(files) :
        Cardinality({j \in 1..Len(docs) : docs[j] = DocumentOfFile(files[i])}) = 1
  /\ \A i \in (1..Len(files)) \ Documented(files) :
        \A j \in 1..Len(docs) : docs[j].name # files[i].originalname

WithoutOtherFiles(files) == SelectSeq(files, LAMBDA f : ~IsOtherFile(f))

C28_DocumentsOfFiles ==
  Submitted =>
    /\ last.code = 201 => OneDocumentPerFile(apps[last.id].documents, last.body.files)
    /\ last.code # 201 =>
          Reply(last.code, last.msg) =
            NormalizedChecks([last.norm EXCEPT !.files = WithoutOtherFiles(@)])

\* C28 for field names that a fresh object does not inherit
C28_OwnFieldNames ==
  (Submitted /\ ~GroupThrows(last.body.files)) =>
    /\ last.code = 201 => OneDocumentPerFile(apps[last.id].documents, last.body.files)
    /\ last.code # 201 =>
          Reply(last.code, last.msg) =
            NormalizedChecks([last.norm EXCEPT !.files = WithoutOtherFiles(@)])

\* a batch of four files, one of them under resume, gave three documents
C28_OtherFieldIgnored ==
  /\ Submitted /\ last.code = 201 /\ Len(last.body.files) = 4
  /\ \E i \in 1..4 : last.body.files[i].fieldname = Chars("resume")
  /\ Len(apps[last.id].documents) = 3

(***************************************************************************)
(* C29.  As stated: in every reachable state, after any sequence of        *)
(* submissions, updates, approves and rejects, every stored application    *)
(* whose status is not Draft holds an applicationNumber that is not empty. *)
(***************************************************************************)
C29_NonDraftNumbered ==
  \A i \in 1..Len(apps) : apps[i].status # "Draft" => apps[i].applicationNumber # ""

\* C29 for submissions, approves and rejects, with no update
C29_WithoutUpdates ==
  [](\A i \in 1..Len(apps) : apps[i].status # "Draft" /\ apps[i].applicationNumber # "")

(***************************************************************************)
(* C30.  After any sequence of submissions, approves and rejects, every    *)
(* stored application with status Approved has approvedAt and approvedBy   *)
(* set and every one with status Rejected has rejectedAt set and a         *)
(* rejectionReason that is not empty; an approve leaves rejectedAt and     *)
(* rejectionReason of every application as they were and a reject leaves   *)
(* approvedAt and approvedBy as they were.                                 *)
(***************************************************************************)
AuditComplete(doc) ==
  /\ doc.status = "Approved" => (doc.approvedAt # "" /\ doc.approvedBy # "")
  /\ doc.status = "Rejected" => (doc.rejectedAt # "" /\ doc.rejectionReason # "")

C30_AuditFields ==
  /\ [](\A i \in 1..Len(apps) : AuditComplete(apps[i]))
  /\ [][\A i \in 1..Len(apps) :
          /\ (last' # last /\ last'.op = "approve")
                => /\ apps'[i].rejectedAt = apps[i].rejectedAt
                   /\ apps'[i].rejectionReason = apps[i].rejectionReason
          /\ (last' # last /\ last'.op = "reject")
                => /\ apps'[i].approvedAt = apps[i].approvedAt
                   /\ apps'[i].approvedBy = apps[i].approvedBy]_vars

\* an application that was rejected and then approved holds the fields of both
C30_Witness ==
  /\ last.op = "approve" /\ last.code = 200
  /\ apps[last.id].status = "Approved"
  /\ apps[last.id].approvedAt # "" /\ apps[last.id].approvedBy = "a1"
  /\ apps[last.id].rejectedAt # "" /\ apps[last.id].rejectionReason = "Low score"

====
